---- MODULE Spec2Model ----
(***************************************************************************)
(* A model of the 247Sports recruiting-class scraper (scraper.py) and of   *)
(* its gap-repair companion (patch_missing_ranks.py).                      *)
(*                                                                         *)
(* Strings are sequences of one-character strings, so that split, replace  *)
(* and the regular expressions of the source are computed character by     *)
(* character, as Python computes them.                                     *)
(*                                                                         *)
(* The module holds one state machine per component; each has its own      *)
(* variables, its own initial predicate and its own next-state relation,   *)
(* and leaves the variables of the other components untouched:             *)
(*   SpecNorm    normalize_player_url applied once and twice               *)
(*   SpecCrawl   scrape_year: link extraction, windows, incremental saves  *)
(*   SpecDriver  click_load_more_until_complete: the Load More loop        *)
(*   SpecConverge  the same loop on a source that never misbehaves         *)
(*   SpecList    get_players_from_list: the Load More loop of the patch    *)
(*   SpecPatch   main of patch_missing_ranks.py: one year of gap repair    *)
(*   SpecRanks   get_players_from_list: the rank map of the items          *)
(*   SpecTimeline  parse_timeline: the summary tier and the full history   *)
(*   SpecExec    scrape_year over listing positions: budget and saves      *)
(*   SpecProfile  parse_profile of both programs, step by step, and the    *)
(*                way of its record through scrape_player_batch            *)
(*   SpecCoverage  click_load_more_until_complete: the coverage check      *)
(*   SpecRepair  main of patch_missing_ranks.py: fetches and delays over   *)
(*               the years of a run                                        *)
(*   SpecPool    scrape_year and scrape_player_batch: the tasks of a       *)
(*               window, one by one                                        *)
(*   SpecResume  scrape_year: a run that stops and the run resuming it    *)
(*   SpecExtract  click_load_more_until_complete: the list returned for   *)
(*               the links of the page                                     *)
(*   SpecValidate  validate_csv: the header check of the output validator *)
(*   SpecAccuracy  validate_accuracy: the re-scrape of a sample           *)
(***************************************************************************)
EXTENDS Integers, Sequences, FiniteSets, TLC

VARIABLES
    \* ---- normalize_player_url (scraper.py) ----
    npc,        \* "start" | "once" | "twice"
    rawParts,   \* the parts the raw reference was assembled from
    raw,        \* the raw reference string
    out1,       \* normalize_player_url(raw)
    out2,       \* normalize_player_url(out1)
    \* ---- scrape_year (scraper.py) ----
    cpc,            \* "extract" | "windows" | "done" | "idle"
    player_links,   \* the hrefs read from the list page, in page order
    start_from,     \* START_FROM_PLAYER
    player_urls,    \* the locators to scrape
    ci,             \* the loop index i of scrape_year
    all_data,       \* every record produced so far
    batch_buffer,   \* the records not yet appended to the CSV
    csv_exists,     \* whether the output file exists
    csv_file,       \* the rows of the output file
    \* ---- click_load_more_until_complete (scraper.py) ----
    dpc,                    \* "start" | "loop" | "post" | "cleanup" | "returned" | "raised"
                            \* | "idle"
    TEST_MODE,              \* the TEST_MODE setting
    total,                  \* the number of entries of the listing
    flaky,                  \* FALSE: the button is visible exactly while entries remain
                            \* and nothing raises; TRUE: any observation at any attempt
    click_count,
    consecutive_failures,
    no_button_checks,
    exit_reason,            \* how the main loop ended: "complete" | "aborted" | "max_clicks"
    recheck,                \* the post-loop observation: "visible" | "absent" | "raised"
    cleanup_i,              \* attempts of the cleanup loop made so far
    cleanup_clicks,         \* clicks issued by the cleanup loop
    cleanup_end,            \* how the cleanup loop ended: "gone" | "exhausted"
    fail_run,               \* history: latest attempts in a row that raised (up to FAILURE_LIMIT)
    absent_run,             \* history: latest attempts in a row that saw no button (up to NO_BUTTON_LIMIT)
    result,                 \* the number of locators returned
    \* ---- get_players_from_list (patch_missing_ranks.py) ----
    lpc,                \* "start" | "loop" | "done" | "idle"
    max_rank_needed,
    l_total,            \* the number of entries of the listing
    l_flaky,            \* as flaky, for this loop
    l_loaded,           \* the entries on the page
    l_i,                \* iterations of the for loop made so far
    l_click_count,
    l_failures,         \* consecutive_failures
    l_no_button,        \* no_button_checks
    l_items,            \* items: the latest count of entries read by the loop
    l_end,              \* how the loop ended: "enough" | "all" | "failures" | "range"
    l_mapped,           \* the number of entries handed to the rank map
    l_fail_run,         \* history: latest attempts in a row that raised (up to 5)
    l_absent_run,       \* history: latest attempts in a row that saw no button (up to 3)
    \* ---- main (patch_missing_ranks.py), one year ----
    ppc,                \* "start" | "scrape" | "load247" | "lookup247" | "done" | "idle"
    site,               \* what the profile page of each player id shows
    gaps,               \* KNOWN_GAPS[year]: [composite, r247], two lists of ranks
    rank_map,           \* rank -> url of the composite list
    target_players,     \* the entries of the dict, in insertion order
    p_i,                \* the next entry of target_players to fetch
    all_patched,
    diagnostics,        \* key -> entry
    missing_247_not_covered,
    r247_map,           \* rank -> url of the 247-only list
    q_i,                \* the next rank of missing_247_not_covered to look up
    reported,           \* the ranks printed as not found: <<variant, rank>>
    notices,            \* the messages about a whole list
    \* ---- get_players_from_list: the rank map (patch_missing_ranks.py) ----
    xpc,                \* "items" | "done" | "idle"
    items_data,         \* the items read from the page, in page order
    rank_to_player,     \* rank -> url
    mapped_printed,     \* the number printed by "Mapped N ranked players"
    \* ---- parse_timeline (scraper.py) ----
    tpc,                \* "summary" | "deep" | "done" | "idle"
    do_deep_dive,
    tl_data,            \* data: Signed Date, Signed Team, _date_priority
    draft_data,         \* data: Draft Date, Draft Team
    scanned,            \* the timeline items examined so far, with their tier
    page_count,         \* the history pages turned
    \* ---- scrape_year over listing positions (scraper.py) ----
    bpc,              \* "start" | "windows" | "done" | "aborted" | "idle"
    b_listing,        \* the locators click_load_more_until_complete returned,
                      \* each named by its position in the overall sequence
    b_start_from,     \* START_FROM_PLAYER
    b_fail,           \* the entity whose processing fails, and the step
    b_player_urls,    \* player_urls of scrape_year
    b_i,              \* the loop index i of scrape_year
    b_all_data,       \* all_data
    b_batch_buffer,   \* batch_buffer
    b_sink,           \* the records append_to_csv received, in call order
    b_timeline,       \* the calls of parse_timeline: locator and do_deep_dive
    b_csv_exists,     \* whether the output file exists
    b_csv_file,       \* the rows of the output file
    \* ---- parse_profile (scraper.py, patch_missing_ranks.py) ----
    fpc,          \* the step parse_profile is about to take, "returned" | "idle"
    parser,       \* "scraper" | "patch": which parse_profile runs
    f_site,       \* the pages the site serves for the entity
    f_view,       \* the view the page currently shows
    f_soup,       \* the view as parsed by BeautifulSoup
    f_data,       \* data
    f_si,         \* the index of the ranking section in turn
    f_nav,        \* the navigations attempted, in order
    f_written,    \* every assignment to data made so far, in order
    f_failed_at,  \* the step that raised into the except clause, or "none"
    f_result,     \* the record returned to the caller
    f_task,       \* the result of the scrape_player task: kind "none" |
                  \* "dict" | "exception", and the dict
    f_valid,      \* valid_results of scrape_player_batch
    \* ---- the coverage check of click_load_more_until_complete (scraper.py) ----
    vpc,              \* "extracted" | "validated" | "returned" | "idle"
    v_test_mode,      \* TEST_MODE
    expected_total,   \* the total the page reports, 0 when it reports none
    v_player_urls,    \* player_urls: the distinct normalized locators
    v_coverage,       \* the message printed: "full" | "degraded" | "severe" | "none"
    v_returned,       \* the list returned
    \* ---- main of patch_missing_ranks.py: the order and the timing of the fetches ----
    gpc,            \* "year" | "composite" | "fetch_composite" | "fetched_composite" | "load247"
                    \* | "lookup247" | "fetch_247" | "fetched_247" | "done" | "aborted" | "idle"
    g_years,        \* years of years_to_fix not yet started
    g_targets,      \* entries of target_players not yet fetched
    g_missing,      \* entries of missing_247_not_covered not yet looked up
    in_flight,      \* calls of parse_profile that began and did not return yet
    fetches,        \* calls of parse_profile that returned
    waited,         \* milliseconds of sleep and wait_for_timeout since the latest return
    gap,            \* waited, as it stood when the latest call began (-1: the first call)
    fetched_in,     \* the passes in which a call began
    \* ---- scrape_year, scrape_player_batch, scrape_player: the tasks of the windows ----
    wpc,            \* "window" | "pages" | "gather" | "close" | "done" | "aborted" | "idle"
    w_total,        \* len(player_urls)
    w_i,            \* the loop index i of scrape_year
    w_state,        \* per listing position: "queued" | "created" | "running" | "returned"
                    \* | "raised"
    w_pages,        \* the listing positions whose page is open
    w_contexts,     \* the windows (batch_num) whose browser context is open
    w_order,        \* the positions of the current window in the order their tasks ended
    w_all_data,     \* all_data of scrape_year
    w_buffer,       \* batch_buffer of scrape_year
    w_sink,         \* the records appended to the CSV file
    w_appends,      \* the calls of append_to_csv made
    \* ---- scrape_year: a run that stops and the run that resumes it ----
    upc,            \* "start" | "windows" | "stopped" | "done" | "idle"
    u_run,          \* 1: the first run, 2: the run that resumes
    u_total,        \* the length of the listing L, the same for both runs
    u_drop,         \* the task whose page.close raises: [run, pos], run 0 for none
    u_start_from,   \* START_FROM_PLAYER of the current run
    u_player_urls,  \* player_urls of the current run, as positions of L from 1
    u_i,            \* the loop index i of scrape_year
    u_processed,    \* the entries the current run passed to scrape_player_batch, in order
    u_buffer,       \* batch_buffer of the current run
    u_sink,         \* the records in the CSV file
    u_first_sink,   \* the records in the CSV file when the first run stopped
    \* ---- click_load_more_until_complete: from the links of the page to the list returned ----
    epc,              \* "links" | "returned" | "idle"
    e_test_mode,      \* TEST_MODE
    e_player_links,   \* player_links: the hrefs read from the page, in page order
    e_player_urls,    \* the list returned
    \* ---- validate_csv (validate_output.py) ----
    opc,            \* "start" | "headers" | "report" | "done" | "idle"
    o_writer,       \* "scraper": the file was written by append_to_csv | "other"
    o_headers,      \* the header line of the file
    o_rows,         \* len(rows)
    o_missing,      \* missing_headers
    o_extra,        \* extra_headers
    o_warned,       \* "Extra Headers" was printed
    o_result,       \* the value returned ("none" before the return)
    \* ---- validate_accuracy (validate_accuracy.py) ----
    apc,            \* "start" | "loop" | "done" | "idle"
    a_rows,         \* len(rows)
    a_sample_size,  \* sample_size
    a_fresh,        \* per sampled row: the live profile agrees on all checked fields
    a_i,            \* sampled rows handled so far
    a_perfect_matches, \* perfect_matches
    a_mismatches,   \* len(mismatches)
    a_result        \* "none" | "True" | "False" | "TypeError" | "ZeroDivisionError"

normVars == <<npc, rawParts, raw, out1, out2>>
crawlVars == <<cpc, player_links, start_from, player_urls, ci, all_data,
               batch_buffer, csv_exists, csv_file>>

driverVars == <<dpc, TEST_MODE, total, flaky, click_count, consecutive_failures,
                no_button_checks, exit_reason, recheck, cleanup_i, cleanup_clicks,
                cleanup_end, fail_run, absent_run, result>>

listVars == <<lpc, max_rank_needed, l_total, l_flaky, l_loaded, l_i, l_click_count,
              l_failures, l_no_button, l_items, l_end, l_mapped, l_fail_run,
              l_absent_run>>

patchVars == <<ppc, site, gaps, rank_map, target_players, p_i, all_patched, diagnostics,
               missing_247_not_covered, r247_map, q_i, reported, notices>>

ranksVars == <<xpc, items_data, rank_to_player, mapped_printed>>

timelineVars == <<tpc, do_deep_dive, tl_data, draft_data, scanned, page_count>>

execVars == <<bpc, b_listing, b_start_from, b_fail, b_player_urls, b_i,
              b_all_data, b_batch_buffer, b_sink, b_timeline, b_csv_exists,
              b_csv_file>>

profileVars == <<fpc, parser, f_site, f_view, f_soup, f_data, f_si, f_nav, f_written,
                 f_failed_at, f_result, f_task, f_valid>>

coverageVars == <<vpc, v_test_mode, expected_total, v_player_urls, v_coverage,
                  v_returned>>

repairVars == <<gpc, g_years, g_targets, g_missing, in_flight, fetches, waited, gap,
               fetched_in>>
poolVars == <<wpc, w_total, w_i, w_state, w_pages, w_contexts, w_order, w_all_data,
             w_buffer, w_sink, w_appends>>
resumeVars == <<upc, u_run, u_total, u_drop, u_start_from, u_player_urls, u_i,
               u_processed, u_buffer, u_sink, u_first_sink>>
extractVars == <<epc, e_test_mode, e_player_links, e_player_urls>>
validateVars == <<opc, o_writer, o_headers, o_rows, o_missing, o_extra, o_warned,
                 o_result>>
accuracyVars == <<apc, a_rows, a_sample_size, a_fresh, a_i, a_perfect_matches,
                 a_mismatches, a_result>>
vars == <<normVars, crawlVars, driverVars, listVars, patchVars, ranksVars, timelineVars, execVars, profileVars, coverageVars, repairVars, poolVars, resumeVars, extractVars, validateVars, accuracyVars>>

\* the variables of the other components
notNorm == <<crawlVars, driverVars, listVars, patchVars, ranksVars, timelineVars, execVars, profileVars, coverageVars, repairVars, poolVars, resumeVars, extractVars, validateVars, accuracyVars>>
notCrawl == <<normVars, driverVars, listVars, patchVars, ranksVars, timelineVars, execVars, profileVars, coverageVars, repairVars, poolVars, resumeVars, extractVars, validateVars, accuracyVars>>
notDriver == <<normVars, crawlVars, listVars, patchVars, ranksVars, timelineVars, execVars, profileVars, coverageVars, repairVars, poolVars, resumeVars, extractVars, validateVars, accuracyVars>>
notList == <<normVars, crawlVars, driverVars, patchVars, ranksVars, timelineVars, execVars, profileVars, coverageVars, repairVars, poolVars, resumeVars, extractVars, validateVars, accuracyVars>>
notPatch == <<normVars, crawlVars, driverVars, listVars, ranksVars, timelineVars, execVars, profileVars, coverageVars, repairVars, poolVars, resumeVars, extractVars, validateVars, accuracyVars>>
notRanks == <<normVars, crawlVars, driverVars, listVars, patchVars, timelineVars, execVars, profileVars, coverageVars, repairVars, poolVars, resumeVars, extractVars, validateVars, accuracyVars>>
notTimeline == <<normVars, crawlVars, driverVars, listVars, patchVars, ranksVars, execVars, profileVars, coverageVars, repairVars, poolVars, resumeVars, extractVars, validateVars, accuracyVars>>
notExec == <<normVars, crawlVars, driverVars, listVars, patchVars, ranksVars, timelineVars, profileVars, coverageVars, repairVars, poolVars, resumeVars, extractVars, validateVars, accuracyVars>>
notProfile == <<normVars, crawlVars, driverVars, listVars, patchVars, ranksVars, timelineVars, execVars, coverageVars, repairVars, poolVars, resumeVars, extractVars, validateVars, accuracyVars>>
notCoverage == <<normVars, crawlVars, driverVars, listVars, patchVars, ranksVars, timelineVars, execVars, profileVars, repairVars, poolVars, resumeVars, extractVars, validateVars, accuracyVars>>
notRepair == <<normVars, crawlVars, driverVars, listVars, patchVars, ranksVars, timelineVars, execVars, profileVars, coverageVars, poolVars, resumeVars, extractVars, validateVars, accuracyVars>>
notPool == <<normVars, crawlVars, driverVars, listVars, patchVars, ranksVars, timelineVars, execVars, profileVars, coverageVars, repairVars, resumeVars, extractVars, validateVars, accuracyVars>>
notResume == <<normVars, crawlVars, driverVars, listVars, patchVars, ranksVars, timelineVars, execVars, profileVars, coverageVars, repairVars, poolVars, extractVars, validateVars, accuracyVars>>
notExtract == <<normVars, crawlVars, driverVars, listVars, patchVars, ranksVars, timelineVars, execVars, profileVars, coverageVars, repairVars, poolVars, resumeVars, validateVars, accuracyVars>>
notValidate == <<normVars, crawlVars, driverVars, listVars, patchVars, ranksVars, timelineVars, execVars, profileVars, coverageVars, repairVars, poolVars, resumeVars, extractVars, accuracyVars>>
notAccuracy == <<normVars, crawlVars, driverVars, listVars, patchVars, ranksVars, timelineVars, execVars, profileVars, coverageVars, repairVars, poolVars, resumeVars, extractVars, validateVars>>

(***************************************************************************)
(* A component that takes no part in a specification stays at rest.        *)
(***************************************************************************)

NormIdle ==
    /\ npc = "idle"
    /\ rawParts = <<>>
    /\ raw = <<>>
    /\ out1 = <<>>
    /\ out2 = <<>>

CrawlIdle ==
    /\ cpc = "idle"
    /\ player_links = <<>>
    /\ start_from = 0
    /\ player_urls = <<>>
    /\ ci = 0
    /\ all_data = <<>>
    /\ batch_buffer = <<>>
    /\ csv_exists = FALSE
    /\ csv_file = <<>>

DriverIdle ==
    /\ dpc = "idle"
    /\ TEST_MODE = FALSE
    /\ total = 0
    /\ flaky = FALSE
    /\ click_count = 0
    /\ consecutive_failures = 0
    /\ no_button_checks = 0
    /\ exit_reason = "none"
    /\ recheck = "none"
    /\ cleanup_i = 0
    /\ cleanup_clicks = 0
    /\ cleanup_end = "none"
    /\ fail_run = 0
    /\ absent_run = 0
    /\ result = 0

ListIdle ==
    /\ lpc = "idle"
    /\ max_rank_needed = 0
    /\ l_total = 0
    /\ l_flaky = FALSE
    /\ l_loaded = 0
    /\ l_i = 0
    /\ l_click_count = 0
    /\ l_failures = 0
    /\ l_no_button = 0
    /\ l_items = 0
    /\ l_end = "none"
    /\ l_mapped = 0
    /\ l_fail_run = 0
    /\ l_absent_run = 0

PatchIdle ==
    /\ ppc = "idle"
    /\ site = <<>>
    /\ gaps = [composite |-> <<>>, r247 |-> <<>>]
    /\ rank_map = <<>>
    /\ target_players = <<>>
    /\ p_i = 1
    /\ all_patched = <<>>
    /\ diagnostics = <<>>
    /\ missing_247_not_covered = <<>>
    /\ r247_map = <<>>
    /\ q_i = 1
    /\ reported = {}
    /\ notices = {}

RanksIdle ==
    /\ xpc = "idle"
    /\ items_data = <<>>
    /\ rank_to_player = <<>>
    /\ mapped_printed = 0

TimelineIdle ==
    /\ tpc = "idle"
    /\ do_deep_dive = FALSE
    /\ tl_data = <<>>
    /\ draft_data = <<>>
    /\ scanned = <<>>
    /\ page_count = 0

ExecIdle ==
    /\ bpc = "idle"
    /\ b_listing = <<>>
    /\ b_start_from = 0
    /\ b_fail = [url |-> 0, step |-> "none"]
    /\ b_player_urls = <<>>
    /\ b_i = 0
    /\ b_all_data = <<>>
    /\ b_batch_buffer = <<>>
    /\ b_sink = <<>>
    /\ b_timeline = {}
    /\ b_csv_exists = FALSE
    /\ b_csv_file = <<>>

ProfileIdle ==
    /\ fpc = "idle"
    /\ parser = "scraper"
    /\ f_site = <<>>
    /\ f_view = <<>>
    /\ f_soup = <<>>
    /\ f_data = <<>>
    /\ f_si = 1
    /\ f_nav = <<>>
    /\ f_written = <<>>
    /\ f_failed_at = "none"
    /\ f_result = <<>>
    /\ f_task = [kind |-> "none", dict |-> <<>>]
    /\ f_valid = <<>>

CoverageIdle ==
    /\ vpc = "idle"
    /\ v_test_mode = FALSE
    /\ expected_total = 0
    /\ v_player_urls = <<>>
    /\ v_coverage = "none"
    /\ v_returned = <<>>

RepairIdle ==
    /\ gpc = "idle"
    /\ g_years = 0
    /\ g_targets = 0
    /\ g_missing = 0
    /\ in_flight = 0
    /\ fetches = 0
    /\ waited = 0
    /\ gap = -1
    /\ fetched_in = {}

PoolIdle ==
    /\ wpc = "idle"
    /\ w_total = 0
    /\ w_i = 0
    /\ w_state = <<>>
    /\ w_pages = {}
    /\ w_contexts = {}
    /\ w_order = <<>>
    /\ w_all_data = <<>>
    /\ w_buffer = <<>>
    /\ w_sink = <<>>
    /\ w_appends = 0

ResumeIdle ==
    /\ upc = "idle"
    /\ u_run = 0
    /\ u_total = 0
    /\ u_drop = [run |-> 0, pos |-> 0]
    /\ u_start_from = 0
    /\ u_player_urls = <<>>
    /\ u_i = 0
    /\ u_processed = <<>>
    /\ u_buffer = <<>>
    /\ u_sink = <<>>
    /\ u_first_sink = <<>>

ExtractIdle ==
    /\ epc = "idle"
    /\ e_test_mode = FALSE
    /\ e_player_links = <<>>
    /\ e_player_urls = <<>>

ValidateIdle ==
    /\ opc = "idle"
    /\ o_writer = "other"
    /\ o_headers = {}
    /\ o_rows = 0
    /\ o_missing = {}
    /\ o_extra = {}
    /\ o_warned = FALSE
    /\ o_result = "none"

AccuracyIdle ==
    /\ apc = "idle"
    /\ a_rows = 0
    /\ a_sample_size = 0
    /\ a_fresh = <<>>
    /\ a_i = 0
    /\ a_perfect_matches = 0
    /\ a_mismatches = 0
    /\ a_result = "none"

NormAlone == CrawlIdle /\ DriverIdle /\ ListIdle /\ PatchIdle /\ RanksIdle /\ TimelineIdle /\ ExecIdle /\ ProfileIdle /\ CoverageIdle /\ RepairIdle /\ PoolIdle /\ ResumeIdle /\ ExtractIdle /\ ValidateIdle /\ AccuracyIdle
CrawlAlone == NormIdle /\ DriverIdle /\ ListIdle /\ PatchIdle /\ RanksIdle /\ TimelineIdle /\ ExecIdle /\ ProfileIdle /\ CoverageIdle /\ RepairIdle /\ PoolIdle /\ ResumeIdle /\ ExtractIdle /\ ValidateIdle /\ AccuracyIdle
DriverAlone == NormIdle /\ CrawlIdle /\ ListIdle /\ PatchIdle /\ RanksIdle /\ TimelineIdle /\ ExecIdle /\ ProfileIdle /\ CoverageIdle /\ RepairIdle /\ PoolIdle /\ ResumeIdle /\ ExtractIdle /\ ValidateIdle /\ AccuracyIdle
ListAlone == NormIdle /\ CrawlIdle /\ DriverIdle /\ PatchIdle /\ RanksIdle /\ TimelineIdle /\ ExecIdle /\ ProfileIdle /\ CoverageIdle /\ RepairIdle /\ PoolIdle /\ ResumeIdle /\ ExtractIdle /\ ValidateIdle /\ AccuracyIdle
PatchAlone == NormIdle /\ CrawlIdle /\ DriverIdle /\ ListIdle /\ RanksIdle /\ TimelineIdle /\ ExecIdle /\ ProfileIdle /\ CoverageIdle /\ RepairIdle /\ PoolIdle /\ ResumeIdle /\ ExtractIdle /\ ValidateIdle /\ AccuracyIdle
RanksAlone == NormIdle /\ CrawlIdle /\ DriverIdle /\ ListIdle /\ PatchIdle /\ TimelineIdle /\ ExecIdle /\ ProfileIdle /\ CoverageIdle /\ RepairIdle /\ PoolIdle /\ ResumeIdle /\ ExtractIdle /\ ValidateIdle /\ AccuracyIdle
TimelineAlone == NormIdle /\ CrawlIdle /\ DriverIdle /\ ListIdle /\ PatchIdle /\ RanksIdle /\ ExecIdle /\ ProfileIdle /\ CoverageIdle /\ RepairIdle /\ PoolIdle /\ ResumeIdle /\ ExtractIdle /\ ValidateIdle /\ AccuracyIdle
ExecAlone == NormIdle /\ CrawlIdle /\ DriverIdle /\ ListIdle /\ PatchIdle /\ RanksIdle /\ TimelineIdle /\ ProfileIdle /\ CoverageIdle /\ RepairIdle /\ PoolIdle /\ ResumeIdle /\ ExtractIdle /\ ValidateIdle /\ AccuracyIdle
ProfileAlone == NormIdle /\ CrawlIdle /\ DriverIdle /\ ListIdle /\ PatchIdle /\ RanksIdle /\ TimelineIdle /\ ExecIdle /\ CoverageIdle /\ RepairIdle /\ PoolIdle /\ ResumeIdle /\ ExtractIdle /\ ValidateIdle /\ AccuracyIdle
CoverageAlone == NormIdle /\ CrawlIdle /\ DriverIdle /\ ListIdle /\ PatchIdle /\ RanksIdle /\ TimelineIdle /\ ExecIdle /\ ProfileIdle /\ RepairIdle /\ PoolIdle /\ ResumeIdle /\ ExtractIdle /\ ValidateIdle /\ AccuracyIdle
RepairAlone == NormIdle /\ CrawlIdle /\ DriverIdle /\ ListIdle /\ PatchIdle /\ RanksIdle /\ TimelineIdle /\ ExecIdle /\ ProfileIdle /\ CoverageIdle /\ PoolIdle /\ ResumeIdle /\ ExtractIdle /\ ValidateIdle /\ AccuracyIdle
PoolAlone == NormIdle /\ CrawlIdle /\ DriverIdle /\ ListIdle /\ PatchIdle /\ RanksIdle /\ TimelineIdle /\ ExecIdle /\ ProfileIdle /\ CoverageIdle /\ RepairIdle /\ ResumeIdle /\ ExtractIdle /\ ValidateIdle /\ AccuracyIdle
ResumeAlone == NormIdle /\ CrawlIdle /\ DriverIdle /\ ListIdle /\ PatchIdle /\ RanksIdle /\ TimelineIdle /\ ExecIdle /\ ProfileIdle /\ CoverageIdle /\ RepairIdle /\ PoolIdle /\ ExtractIdle /\ ValidateIdle /\ AccuracyIdle
ExtractAlone == NormIdle /\ CrawlIdle /\ DriverIdle /\ ListIdle /\ PatchIdle /\ RanksIdle /\ TimelineIdle /\ ExecIdle /\ ProfileIdle /\ CoverageIdle /\ RepairIdle /\ PoolIdle /\ ResumeIdle /\ ValidateIdle /\ AccuracyIdle
ValidateAlone == NormIdle /\ CrawlIdle /\ DriverIdle /\ ListIdle /\ PatchIdle /\ RanksIdle /\ TimelineIdle /\ ExecIdle /\ ProfileIdle /\ CoverageIdle /\ RepairIdle /\ PoolIdle /\ ResumeIdle /\ ExtractIdle /\ AccuracyIdle
AccuracyAlone == NormIdle /\ CrawlIdle /\ DriverIdle /\ ListIdle /\ PatchIdle /\ RanksIdle /\ TimelineIdle /\ ExecIdle /\ ProfileIdle /\ CoverageIdle /\ RepairIdle /\ PoolIdle /\ ResumeIdle /\ ExtractIdle /\ ValidateIdle

(***************************************************************************)
(* String helpers: Python's str and re primitives on character sequences.  *)
(***************************************************************************)

MinOf(S) == CHOOSE x \in S : \A y \in S : x <= y

\* s[i:i+len(pat)] == pat
StartsAt(s, i, pat) ==
    /\ i >= 1
    /\ i + Len(pat) - 1 <= Len(s)
    /\ SubSeq(s, i, i + Len(pat) - 1) = pat

\* pat in s
Contains(s, pat) == \E i \in 1..Len(s) : StartsAt(s, i, pat)

\* s.split(c)[0] for a one-character separator c
SplitFirst(s, c) ==
    LET at == {i \in 1..Len(s) : s[i] = c}
    IN  IF at = {} THEN s ELSE SubSeq(s, 1, MinOf(at) - 1)

RECURSIVE ReplaceFrom(_, _, _, _)
ReplaceFrom(s, i, pat, rep) ==
    IF i > Len(s) THEN <<>>
    ELSE IF StartsAt(s, i, pat)
         THEN rep \o ReplaceFrom(s, i + Len(pat), pat, rep)
         ELSE <<s[i]>> \o ReplaceFrom(s, i + 1, pat, rep)

\* s.replace(pat, rep): every non-overlapping occurrence, left to right, one pass
Replace(s, pat, rep) == ReplaceFrom(s, 1, pat, rep)

\* the length of the longest run of characters other than "/" starting at s[i]
RECURSIVE NonSlashRun(_, _)
NonSlashRun(s, i) ==
    IF i > Len(s) \/ s[i] = "/" THEN 0 ELSE 1 + NonSlashRun(s, i + 1)

Digits == {"0", "1", "2", "3", "4", "5", "6", "7", "8", "9"}

(***************************************************************************)
(* String literals of the source.                                          *)
(***************************************************************************)

S_QMARK == "?"
S_HASH == "#"
S_SCHEME_WWW == <<":", "/", "/", "w", "w", "w", ".">>
S_SCHEME_SEP == <<":", "/", "/">>
S_HTTP_SEP == <<"h", "t", "t", "p", ":", "/", "/">>
S_HTTPS_SEP == <<"h", "t", "t", "p", "s", ":", "/", "/">>
S_HOST == <<"2", "4", "7", "s", "p", "o", "r", "t", "s", ".", "c", "o", "m">>
S_PLAYER == <<"/", "p", "l", "a", "y", "e", "r", "/">>
S_NA == <<"N", "A">>

\* the literal prefix of the pattern r'(https://247sports\.com/player/[^/]+)'
PLAYER_URL_PREFIX == S_HTTPS_SEP \o S_HOST \o S_PLAYER

(***************************************************************************)
(* scraper.py: normalize_player_url                                        *)
(***************************************************************************)

\* a plausible slip: the 'www.' prefix is not collapsed
normalize_player_url_keep_www(url) ==
    LET u1 == SplitFirst(SplitFirst(url, S_QMARK), S_HASH)
        u3 == Replace(u1, S_HTTP_SEP, S_HTTPS_SEP)
        n  == NonSlashRun(u3, Len(PLAYER_URL_PREFIX) + 1)
    IN  IF StartsAt(u3, 1, PLAYER_URL_PREFIX) /\ n >= 1
        THEN SubSeq(u3, 1, Len(PLAYER_URL_PREFIX) + n) \o <<"/">>
        ELSE u3

normalize_player_url(url) ==
    LET u1 == SplitFirst(SplitFirst(url, S_QMARK), S_HASH)
        u2 == Replace(u1, S_SCHEME_WWW, S_SCHEME_SEP)
        u3 == Replace(u2, S_HTTP_SEP, S_HTTPS_SEP)
        \* re.match: anchored at the start; [^/]+ is greedy and needs one character
        n  == NonSlashRun(u3, Len(PLAYER_URL_PREFIX) + 1)
    IN  IF StartsAt(u3, 1, PLAYER_URL_PREFIX) /\ n >= 1
        THEN SubSeq(u3, 1, Len(PLAYER_URL_PREFIX) + n) \o <<"/">>
        ELSE u3

(***************************************************************************)
(* scraper.py / patch_missing_ranks.py: extract_player_id                  *)
(* re.search(r'/player/[^/]+-(\d+)/', url): the first '/player/' whose     *)
(* segment, closed by a '/', ends in '-' and a run of digits.              *)
(***************************************************************************)

\* the positions of '-' in the segment s[a..b] after which only digits follow,
\* with at least one character before the '-' and one digit after it
IdDashes(s, a, b) ==
    {d \in (a + 1)..(b - 1) :
        /\ s[d] = "-"
        /\ \A k \in (d + 1)..b : s[k] \in Digits}

\* the starts of the occurrences of '/player/' at which the pattern matches
IdMatches(s) ==
    {i \in 1..Len(s) :
        /\ StartsAt(s, i, S_PLAYER)
        /\ LET a == i + Len(S_PLAYER)
               n == NonSlashRun(s, a)
           IN  /\ a + n <= Len(s)          \* the segment is closed by '/'
               /\ IdDashes(s, a, a + n - 1) # {}}

extract_player_id(url) ==
    IF IdMatches(url) = {} THEN S_NA
    ELSE LET i == MinOf(IdMatches(url))
             a == i + Len(S_PLAYER)
             b == a + NonSlashRun(url, a) - 1
             d == MinOf(IdDashes(url, a, b))
         IN  SubSeq(url, d + 1, b)

(***************************************************************************)
(* Raw references: scheme, 'www.' prefixes, host, path, tail.              *)
(***************************************************************************)

MaxWww == 2

Schemes == {<<"h", "t", "t", "p">>, <<"h", "t", "t", "p", "s">>, <<"f", "t", "p">>}
Hosts == {S_HOST, <<"x", ".", "i", "o">>}
Slugs == {<<"a", "-", "1">>, <<"b", "o", "-", "2", "7">>}
\* what follows the slug: nothing, a slash, a sub-resource segment
Suffixes == {<<>>, <<"/">>, <<"/", "c", "o", "l", "l", "e", "g", "e", "-", "9", "/">>}
\* query string and fragment
Tails == {<<>>, <<"?", "q">>, <<"#", "f">>, <<"?", "q", "#", "f">>, <<"#", "f", "?", "q">>}
PathKinds == {"player", "season", "none"}

RECURSIVE Www(_)
Www(k) == IF k = 0 THEN <<>> ELSE <<"w", "w", "w", ".">> \o Www(k - 1)

PathOf(p) ==
    CASE p.kind = "player" -> S_PLAYER \o p.slug \o p.suffix
      [] p.kind = "season" -> <<"/", "s", "e", "a", "s", "o", "n", "/">> \o p.slug \o p.suffix
      [] OTHER -> <<>>

BuildUrl(p) == p.scheme \o S_SCHEME_SEP \o Www(p.www) \o p.host \o PathOf(p) \o p.tail

RawParts ==
    [scheme : Schemes, www : 0..MaxWww, host : Hosts, kind : PathKinds,
     slug : Slugs, suffix : Suffixes, tail : Tails]

\* the canonical locator of a slug
CanonicalUrl(slug) == PLAYER_URL_PREFIX \o slug \o <<"/">>

(***************************************************************************)
(* SpecNorm: the normalizer applied to a raw reference, then to its result *)
(***************************************************************************)

NormInit ==
    /\ npc = "start"
    /\ rawParts \in RawParts
    /\ raw = BuildUrl(rawParts)
    /\ out1 = <<>>
    /\ out2 = <<>>

Normalize ==
    /\ npc = "start"
    /\ out1' = normalize_player_url(raw)
    /\ npc' = "once"
    /\ UNCHANGED <<rawParts, raw, out2, notNorm>>

Renormalize ==
    /\ npc = "once"
    /\ out2' = normalize_player_url(out1)
    /\ npc' = "twice"
    /\ UNCHANGED <<rawParts, raw, out1, notNorm>>

NextNorm == Normalize \/ Renormalize

\* the other components stay as constructed
NormStart == NormInit /\ NormAlone

SpecNorm == NormStart /\ [][NextNorm]_vars

\* C1: normalize_player_url is idempotent: normalizing a normalized reference
\* changes nothing, for well-formed and malformed raw references alike.
C1_Idempotent == npc = "twice" => out2 = out1

\* the family of raw forms of one player's URL that C2 speaks of
WellFormed(p) ==
    /\ p.scheme \in {<<"h", "t", "t", "p">>, <<"h", "t", "t", "p", "s">>}
    /\ p.www \in {0, 1}
    /\ p.host = S_HOST
    /\ p.kind = "player"

\* C2: every raw form of a player's URL (either scheme, with or without 'www.',
\* with or without trailing slash, sub-resource segment, query or fragment)
\* normalizes to https://247sports.com/player/<slug>/.
C2_SameCanonical ==
    (npc # "start" /\ WellFormed(rawParts)) => out1 = CanonicalUrl(rawParts.slug)

\* C2 witness: an http, www, sub-resource, query-and-fragment form was normalized
C2_Witness ==
    /\ npc = "once"
    /\ rawParts.scheme = <<"h", "t", "t", "p">>
    /\ rawParts.www = 1
    /\ rawParts.host = S_HOST
    /\ rawParts.kind = "player"
    /\ Len(rawParts.suffix) > 1
    /\ rawParts.tail = <<"?", "q", "#", "f">>
    /\ out1 = CanonicalUrl(rawParts.slug)
    /\ out1 # raw

(***************************************************************************)
(* scraper.py: the list of locators returned by the listing crawl          *)
(* (click_load_more_until_complete, "Normalize and deduplicate")           *)
(***************************************************************************)

S_DOMAIN == S_HOST

\* if u and '/player/' in u and '247sports.com' in u
IsPlayerLink(u) == Len(u) > 0 /\ Contains(u, S_PLAYER) /\ Contains(u, S_DOMAIN)

\* list(xs): every occurrence is kept
KeepAll(xs) == xs

\* list(dict.fromkeys(xs)): the first occurrence of each value, in order
DictFromKeys(xs) ==
    LET first == SelectSeq([k \in 1..Len(xs) |-> k],
                           LAMBDA k : \A m \in 1..(k - 1) : xs[m] # xs[k])
    IN  [j \in 1..Len(first) |-> xs[first[j]]]

\* normalize_player_url(u) for u in player_links if ..., from the i-th link on
NormalizedLinks(links, i) ==
    LET kept == SelectSeq(SubSeq(links, i, Len(links)), IsPlayerLink)
    IN  [k \in 1..Len(kept) |-> normalize_player_url(kept[k])]

ExtractPlayerUrls(links) == DictFromKeys(NormalizedLinks(links, 1))

\* xs[k:]
DropFirst(xs, k) == IF k >= Len(xs) THEN <<>> ELSE SubSeq(xs, k + 1, Len(xs))

(***************************************************************************)
(* scraper.py: parse_profile / scrape_player / scrape_player_batch, by the *)
(* outcome of one entity:                                                  *)
(*   "ok"        the profile was fetched and parsed                        *)
(*   "degraded"  page.goto raised: parse_profile returns the sentinels     *)
(*   "raised"    page.close raised in scrape_player's finally: the task's  *)
(*               result is an exception                                    *)
(***************************************************************************)

Outcomes == {"ok", "degraded", "raised"}

\* str(year): YEARS = [int(os.getenv('SCRAPE_YEAR', '2020'))]
RECRUITING_YEAR == <<"2", "0", "2", "0">>

MAX_CONCURRENT == 4
FLUSH_THRESHOLD == 100

\* the fields of a record that the model follows
Record(url, outcome) ==
    [kind |-> "record",
     id   |-> IF outcome = "ok" THEN extract_player_id(url) ELSE S_NA,
     year |-> RECRUITING_YEAR,
     url  |-> url]

HeaderRow == [kind |-> "header", id |-> <<>>, year |-> <<>>, url |-> <<>>]

\* results of asyncio.gather(..., return_exceptions=True), the dicts only
RECURSIVE ValidResults(_, _, _)
ValidResults(urls, outcome, i) ==
    IF i > Len(urls) THEN <<>>
    ELSE IF outcome[i] = "raised"
         THEN ValidResults(urls, outcome, i + 1)
         ELSE <<Record(urls[i], outcome[i])>> \o ValidResults(urls, outcome, i + 1)

scrape_player_batch(urls, outcome) == ValidResults(urls, outcome, 1)

\* append_to_csv with a header at every call
append_with_header(file, exists, players) == file \o <<HeaderRow>> \o players

\* append_to_csv: the header is written when the file does not exist yet
append_to_csv(file, exists, players) ==
    (IF exists THEN file ELSE file \o <<HeaderRow>>) \o players

(***************************************************************************)
(* SpecCrawl: scrape_year                                                  *)
(***************************************************************************)

MaxLinks == 3
MaxStart == 1

H_HTTP == <<"h", "t", "t", "p">>
H_HTTPS == <<"h", "t", "t", "p", "s">>
SlugA == <<"a", "-", "1">>
SlugZ == <<"z", "-", "1">>
SlugB == <<"b", "o", "-", "2", "7">>

\* the hrefs a list page may hold: two forms of one player's URL, the same
\* player id under another slug and under another host, another player, and a
\* link that is no player link
ListLinks ==
    {BuildUrl([scheme |-> H_HTTPS, www |-> 0, host |-> S_HOST, kind |-> "player",
               slug |-> SlugA, suffix |-> <<"/">>, tail |-> <<>>]),
     BuildUrl([scheme |-> H_HTTP, www |-> 1, host |-> S_HOST, kind |-> "player",
               slug |-> SlugA, suffix |-> <<"/">>, tail |-> <<"?", "q">>]),
     BuildUrl([scheme |-> H_HTTPS, www |-> 0, host |-> S_HOST, kind |-> "player",
               slug |-> SlugZ, suffix |-> <<"/">>, tail |-> <<>>]),
     BuildUrl([scheme |-> H_HTTPS, www |-> 0, host |-> <<"m", ".">> \o S_HOST,
               kind |-> "player", slug |-> SlugA, suffix |-> <<"/">>, tail |-> <<>>]),
     BuildUrl([scheme |-> H_HTTPS, www |-> 0, host |-> S_HOST, kind |-> "player",
               slug |-> SlugB, suffix |-> <<"/">>, tail |-> <<>>]),
     BuildUrl([scheme |-> H_HTTPS, www |-> 0, host |-> S_HOST, kind |-> "season",
               slug |-> SlugB, suffix |-> <<"/">>, tail |-> <<>>])}

Listings == UNION {[1..n -> ListLinks] : n \in 0..MaxLinks}

CrawlInit ==
    /\ cpc = "extract"
    /\ player_links \in Listings
    /\ start_from \in 0..MaxStart
    /\ player_urls = <<>>
    /\ ci = 0
    /\ all_data = <<>>
    /\ batch_buffer = <<>>
    /\ csv_exists = FALSE
    /\ csv_file = <<>>

\* scrape_year up to its loop: the locators of the listing, the resume offset
StartYear ==
    /\ cpc = "extract"
    /\ LET urls == ExtractPlayerUrls(player_links)
       IN  IF urls = <<>>
           THEN /\ player_urls' = <<>>
                /\ cpc' = "done"
           ELSE /\ player_urls' = (IF start_from > 0 THEN DropFirst(urls, start_from) ELSE urls)
                /\ cpc' = "windows"
    /\ ci' = 0
    /\ UNCHANGED <<player_links, start_from, all_data, batch_buffer, csv_exists,
                   csv_file, notCrawl>>

\* one iteration of the loop of scrape_year: a window of MAX_CONCURRENT
\* locators, then the incremental save
ScrapeWindow ==
    /\ cpc = "windows"
    /\ ci < Len(player_urls)
    /\ LET hi    == IF ci + MAX_CONCURRENT < Len(player_urls)
                    THEN ci + MAX_CONCURRENT ELSE Len(player_urls)
           batch == SubSeq(player_urls, ci + 1, hi)
       IN  \E outcome \in [1..Len(batch) -> Outcomes] :
             LET batch_data == scrape_player_batch(batch, outcome)
                 buffer     == batch_buffer \o batch_data
             IN  /\ all_data' = all_data \o batch_data
                 /\ IF Len(buffer) >= FLUSH_THRESHOLD
                    THEN /\ csv_file' = append_to_csv(csv_file, csv_exists, buffer)
                         /\ csv_exists' = TRUE
                         /\ batch_buffer' = <<>>
                    ELSE /\ batch_buffer' = buffer
                         /\ UNCHANGED <<csv_file, csv_exists>>
    /\ ci' = ci + MAX_CONCURRENT
    /\ UNCHANGED <<cpc, player_links, start_from, player_urls, notCrawl>>

\* after the loop: "Save any remaining players in buffer"
FinishYear ==
    /\ cpc = "windows"
    /\ ci >= Len(player_urls)
    /\ IF batch_buffer # <<>>
       THEN /\ csv_file' = append_to_csv(csv_file, csv_exists, batch_buffer)
            /\ csv_exists' = TRUE
       ELSE UNCHANGED <<csv_file, csv_exists>>
    /\ cpc' = "done"
    /\ UNCHANGED <<player_links, start_from, player_urls, ci, all_data,
                   batch_buffer, notCrawl>>

NextCrawl == StartYear \/ ScrapeWindow \/ FinishYear

\* the other components stay as constructed
CrawlStart == CrawlInit /\ CrawlAlone

SpecCrawl == CrawlStart /\ [][NextCrawl]_vars

\* the records written to the CSV so far
CsvRecords == SelectSeq(csv_file, LAMBDA r : r.kind = "record")

\* C3: no two records appended to the CSV by the crawl of one year carry the
\* same (247 ID, Recruiting Year) pair.
C3_UniqueIdYear ==
    \A i, j \in 1..Len(CsvRecords) :
        i # j => <<CsvRecords[i].id, CsvRecords[i].year>>
                 # <<CsvRecords[j].id, CsvRecords[j].year>>

\* the same for the records of profiles that were fetched and parsed: no two
\* of them carry the same player id
UniqueParsedId ==
    \A i, j \in 1..Len(CsvRecords) :
        (i # j /\ CsvRecords[i].id # S_NA) => CsvRecords[i].id # CsvRecords[j].id

(***************************************************************************)
(* scraper.py: click_load_more_until_complete                              *)
(*                                                                         *)
(* The list page shows PageSize entries when opened and PageSize more      *)
(* after each click, up to the total of the listing.  An attempt of the    *)
(* loop sees the button, sees no button, or raises.  The count at the top  *)
(* of the loop is outside the try statement: when it raises, the           *)
(* exception leaves the function.  The final link extraction is taken not  *)
(* to raise.                                                               *)
(***************************************************************************)

PageSize == 50

MAX_CLICKS == 500
TEST_MAX_CLICKS == 20
NO_BUTTON_LIMIT == 3
FAILURE_LIMIT == 10
CLEANUP_ATTEMPTS == 50
TEST_MODE_LIMIT == 300

\* the limit of TEST_MODE in every mode
max_clicks_of_test == TEST_MAX_CLICKS

\* max_clicks = 500 if not TEST_MODE else 20
max_clicks == IF TEST_MODE THEN TEST_MAX_CLICKS ELSE MAX_CLICKS

\* the entries on the page after k clicks
LoadedAfter(k) == IF PageSize * (1 + k) < total THEN PageSize * (1 + k) ELSE total

Loaded == LoadedAfter(click_count + cleanup_clicks)

\* what an observation of the button may give
MayBeVisible == flaky \/ Loaded < total
MayBeAbsent == flaky \/ Loaded >= total
MayRaise == flaky

UpTo(n, limit) == IF n < limit THEN n ELSE limit

\* listings by the clicks they need: none, one, a few, more than TEST_MODE's
\* main loop and cleanup allow, exactly and more than the main loop and the
\* cleanup allow
ClicksNeeded ==
    {0, 1, 3, TEST_MAX_CLICKS + 1, TEST_MAX_CLICKS + CLEANUP_ATTEMPTS + 1,
     MAX_CLICKS, MAX_CLICKS + 1, MAX_CLICKS + CLEANUP_ATTEMPTS,
     MAX_CLICKS + CLEANUP_ATTEMPTS + 1}

Totals == {0, 1} \cup {PageSize * (1 + k) : k \in ClicksNeeded}
FlakyTotals == {PageSize * 4}

DriverInit ==
    /\ dpc = "start"
    /\ TEST_MODE \in BOOLEAN
    /\ flaky \in BOOLEAN
    /\ total \in (IF flaky THEN FlakyTotals ELSE Totals)
    /\ click_count = 0
    /\ consecutive_failures = 0
    /\ no_button_checks = 0
    /\ exit_reason = "none"
    /\ recheck = "none"
    /\ cleanup_i = 0
    /\ cleanup_clicks = 0
    /\ cleanup_end = "none"
    /\ fail_run = 0
    /\ absent_run = 0
    /\ result = 0

\* page.goto and the search for a selector that matches entries
OpenListing ==
    /\ dpc = "start"
    /\ IF total = 0
       THEN /\ dpc' = "returned"       \* "No players found": return []
            /\ result' = 0
       ELSE /\ dpc' = "loop"
            /\ UNCHANGED result
    /\ UNCHANGED <<TEST_MODE, total, flaky, click_count, consecutive_failures,
                   no_button_checks, exit_reason, recheck, cleanup_i, cleanup_clicks,
                   cleanup_end, fail_run, absent_run, notDriver>>

\* page.goto raises: return []
OpenListingFails ==
    /\ dpc = "start"
    /\ MayRaise
    /\ dpc' = "returned"
    /\ result' = 0
    /\ UNCHANGED <<TEST_MODE, total, flaky, click_count, consecutive_failures,
                   no_button_checks, exit_reason, recheck, cleanup_i, cleanup_clicks,
                   cleanup_end, fail_run, absent_run, notDriver>>

\* the button is visible and the click goes through
ClickLoadMore ==
    /\ dpc = "loop"
    /\ click_count < max_clicks
    /\ MayBeVisible
    /\ click_count' = click_count + 1
    /\ consecutive_failures' = 0
    /\ no_button_checks' = 0
    /\ fail_run' = 0
    /\ absent_run' = 0
    /\ UNCHANGED <<dpc, TEST_MODE, total, flaky, exit_reason, recheck, cleanup_i,
                   cleanup_clicks, cleanup_end, result, notDriver>>

\* the click goes through and the wait after it raises
ClickThenRaise ==
    /\ dpc = "loop"
    /\ click_count < max_clicks
    /\ MayBeVisible /\ MayRaise
    /\ click_count' = click_count + 1
    /\ consecutive_failures' = 1
    /\ no_button_checks' = 0
    /\ fail_run' = UpTo(fail_run + 1, FAILURE_LIMIT)
    /\ absent_run' = 0
    /\ UNCHANGED <<dpc, TEST_MODE, total, flaky, exit_reason, recheck, cleanup_i,
                   cleanup_clicks, cleanup_end, result, notDriver>>

\* no button, or an invisible one
NoButton ==
    /\ dpc = "loop"
    /\ click_count < max_clicks
    /\ MayBeAbsent
    /\ no_button_checks' = no_button_checks + 1
    /\ fail_run' = 0
    /\ absent_run' = UpTo(absent_run + 1, NO_BUTTON_LIMIT)
    /\ IF no_button_checks + 1 >= NO_BUTTON_LIMIT
       THEN /\ dpc' = "post"
            /\ exit_reason' = "complete"
       ELSE UNCHANGED <<dpc, exit_reason>>
    /\ UNCHANGED <<TEST_MODE, total, flaky, click_count, consecutive_failures,
                   recheck, cleanup_i, cleanup_clicks, cleanup_end, result, notDriver>>

\* the except branch of the main loop
Failed(checks) ==
    /\ consecutive_failures' = consecutive_failures + 1
    /\ no_button_checks' = checks
    /\ fail_run' = UpTo(fail_run + 1, FAILURE_LIMIT)
    /\ absent_run' = 0
    /\ IF consecutive_failures + 1 >= FAILURE_LIMIT
       THEN /\ dpc' = "post"
            /\ exit_reason' = "aborted"
       ELSE UNCHANGED <<dpc, exit_reason>>
    /\ UNCHANGED <<TEST_MODE, total, flaky, click_count, recheck, cleanup_i,
                   cleanup_clicks, cleanup_end, result, notDriver>>

\* the attempt raises before a click is made or a missing button is counted
AttemptRaises ==
    /\ dpc = "loop"
    /\ click_count < max_clicks
    /\ MayRaise
    /\ Failed(no_button_checks)

\* no button for the third time, and the final count of the entries raises
NoButtonThenRaise ==
    /\ dpc = "loop"
    /\ click_count < max_clicks
    /\ MayBeAbsent /\ MayRaise
    /\ no_button_checks + 1 >= NO_BUTTON_LIMIT
    /\ Failed(no_button_checks + 1)

\* "current_players = await page.locator(valid_selector).count()" raises:
\* the statement is before the try of the loop body, so the exception
\* propagates to the caller
CountRaises ==
    /\ dpc = "loop"
    /\ click_count < max_clicks
    /\ MayRaise
    /\ dpc' = "raised"
    /\ UNCHANGED <<TEST_MODE, total, flaky, click_count, consecutive_failures,
                   no_button_checks, exit_reason, recheck, cleanup_i, cleanup_clicks,
                   cleanup_end, fail_run, absent_run, result, notDriver>>

\* while click_count < max_clicks
OutOfClicks ==
    /\ dpc = "loop"
    /\ click_count >= max_clicks
    /\ dpc' = "post"
    /\ exit_reason' = "max_clicks"
    /\ UNCHANGED <<TEST_MODE, total, flaky, click_count, consecutive_failures,
                   no_button_checks, recheck, cleanup_i, cleanup_clicks, cleanup_end,
                   fail_run, absent_run, result, notDriver>>

\* the number of locators returned: one per entry on the page, cut to 300 in
\* TEST_MODE
Returned(n) == IF TEST_MODE /\ n > TEST_MODE_LIMIT THEN TEST_MODE_LIMIT ELSE n

\* link extraction and return
ExtractAndReturn ==
    /\ result' = Returned(Loaded)
    /\ dpc' = "returned"

\* a post-loop step that runs cleanup whatever the look at the button gave
PostLoopCleanupAlways ==
    /\ dpc = "post"
    /\ \E seen \in {"visible", "absent", "raised"} :
         /\ seen = "visible" => MayBeVisible
         /\ seen = "absent" => MayBeAbsent
         /\ seen = "raised" => MayRaise
         /\ recheck' = seen
    /\ dpc' = "cleanup"
    /\ consecutive_failures' = 0
    /\ no_button_checks' = 0
    /\ fail_run' = 0
    /\ absent_run' = 0
    /\ UNCHANGED <<TEST_MODE, total, flaky, click_count, exit_reason, cleanup_i,
                   cleanup_clicks, cleanup_end, result, notDriver>>

\* "Post-loop verification": one more look at the button.  The counters of
\* the main loop are not read again; the model clears them.
PostLoopCheck ==
    /\ dpc = "post"
    /\ \E seen \in {"visible", "absent", "raised"} :
         /\ seen = "visible" => MayBeVisible
         /\ seen = "absent" => MayBeAbsent
         /\ seen = "raised" => MayRaise
         /\ recheck' = seen
         /\ IF seen = "visible"
            THEN /\ dpc' = "cleanup"
                 /\ UNCHANGED result
            ELSE ExtractAndReturn
    /\ consecutive_failures' = 0
    /\ no_button_checks' = 0
    /\ fail_run' = 0
    /\ absent_run' = 0
    /\ UNCHANGED <<TEST_MODE, total, flaky, click_count, exit_reason, cleanup_i,
                   cleanup_clicks, cleanup_end, notDriver>>

\* for _ in range(50): the button is visible and is clicked
CleanupClick ==
    /\ dpc = "cleanup"
    /\ cleanup_i < CLEANUP_ATTEMPTS
    /\ MayBeVisible
    /\ cleanup_clicks' = cleanup_clicks + 1
    /\ cleanup_i' = cleanup_i + 1
    /\ UNCHANGED <<dpc, TEST_MODE, total, flaky, click_count, consecutive_failures,
                   no_button_checks, exit_reason, recheck, cleanup_end, fail_run,
                   absent_run, result, notDriver>>

\* the button is gone: break
CleanupGone ==
    /\ dpc = "cleanup"
    /\ cleanup_i < CLEANUP_ATTEMPTS
    /\ MayBeAbsent
    /\ cleanup_end' = "gone"
    /\ ExtractAndReturn
    /\ UNCHANGED <<TEST_MODE, total, flaky, click_count, consecutive_failures,
                   no_button_checks, exit_reason, recheck, cleanup_i, cleanup_clicks,
                   fail_run, absent_run, notDriver>>

\* except: continue
CleanupRaises ==
    /\ dpc = "cleanup"
    /\ cleanup_i < CLEANUP_ATTEMPTS
    /\ MayRaise
    /\ cleanup_i' = cleanup_i + 1
    /\ UNCHANGED <<dpc, TEST_MODE, total, flaky, click_count, consecutive_failures,
                   no_button_checks, exit_reason, recheck, cleanup_clicks, cleanup_end,
                   fail_run, absent_run, result, notDriver>>

\* the range of the cleanup loop is used up
CleanupExhausted ==
    /\ dpc = "cleanup"
    /\ cleanup_i >= CLEANUP_ATTEMPTS
    /\ cleanup_end' = "exhausted"
    /\ ExtractAndReturn
    /\ UNCHANGED <<TEST_MODE, total, flaky, click_count, consecutive_failures,
                   no_button_checks, exit_reason, recheck, cleanup_i, cleanup_clicks,
                   fail_run, absent_run, notDriver>>

NextDriver ==
    \/ OpenListing \/ OpenListingFails
    \/ ClickLoadMore \/ ClickThenRaise \/ NoButton \/ AttemptRaises \/ NoButtonThenRaise
    \/ CountRaises \/ OutOfClicks \/ PostLoopCheck
    \/ CleanupClick \/ CleanupGone \/ CleanupRaises \/ CleanupExhausted

\* the other components stay as constructed
DriverStart == DriverInit /\ DriverAlone

SpecDriver == DriverStart /\ [][NextDriver]_vars

\* the same driver on the sources that never misbehave: the button is
\* visible exactly while entries remain and no attempt raises.  Every step the
\* driver can take it does take (each await returns).
ConvergeInit == DriverInit /\ DriverAlone /\ flaky = FALSE

NextConverge ==
    \/ OpenListing
    \/ ClickLoadMore \/ NoButton \/ OutOfClicks \/ PostLoopCheck
    \/ CleanupClick \/ CleanupGone \/ CleanupExhausted

SpecConverge == ConvergeInit /\ [][NextConverge]_vars /\ WF_vars(NextConverge)

\* C4 as stated: on a listing whose button disappears once everything is
\* loaded, the driver returns exactly as many entries as the listing has,
\* whatever the size of the listing (here in the default mode, TEST_MODE off).
C4_ReturnsAll == (dpc = "returned" /\ ~TEST_MODE) => result = total

\* the most entries the clicks of the main loop and of the cleanup can load
Reachable == PageSize * (1 + (IF TEST_MODE THEN 20 ELSE 500) + 50)

\* C4 amended: on such a listing the driver returns, having clicked at most
\* max_clicks times in the main loop (500; 20 in TEST_MODE) and at most 50 times
\* in cleanup; if the listing is loaded within that many clicks, the entries
\* returned are exactly those of the listing (in TEST_MODE, its first 300).
C4_Converges ==
    /\ <>(dpc = "returned")
    /\ [](dpc = "returned" =>
            /\ click_count <= (IF TEST_MODE THEN 20 ELSE 500)
            /\ cleanup_clicks <= 50
            /\ total <= Reachable =>
                 result = (IF TEST_MODE /\ total > 300 THEN 300 ELSE total))

\* C4 witness: a listing that needs every click of the main loop and of the
\* cleanup was returned whole
C4_Witness ==
    /\ dpc = "returned"
    /\ ~TEST_MODE
    /\ click_count = 500
    /\ cleanup_clicks = 50
    /\ total = PageSize * 551
    /\ result = total

\* C5: the main loop declares the listing complete only when the latest three
\* attempts in a row saw no button, none of them a click or an error.
C5_ThreeInARow ==
    (dpc = "post" /\ exit_reason = "complete") => absent_run >= 3

\* C6: the main loop aborts only when the latest ten attempts in a row all
\* raised; any attempt that did not raise starts the count again.
C6_TenInARow ==
    (dpc = "post" /\ exit_reason = "aborted") => fail_run >= 10

\* C7: after the main loop one more observation is made; cleanup runs only if
\* it saw the button, makes at most 50 attempts, and ends before the 50th only
\* because the button is gone; if the observation saw no button, no click
\* follows.
C7_PostCheck ==
    /\ cleanup_i <= 50
    /\ cleanup_clicks <= cleanup_i
    /\ dpc = "cleanup" => recheck = "visible"
    /\ (dpc = "returned" /\ exit_reason # "none") => recheck # "none"
    /\ recheck # "visible" => (cleanup_i = 0 /\ cleanup_clicks = 0)
    /\ (dpc = "returned" /\ recheck = "visible") =>
          \/ cleanup_end = "gone"
          \/ (cleanup_end = "exhausted" /\ cleanup_i = 50)

\* C7 witness: the loop declared the listing complete, the button was back at
\* the re-check, and cleanup clicked until it was gone
C7_Witness ==
    /\ dpc = "returned"
    /\ exit_reason = "complete"
    /\ recheck = "visible"
    /\ cleanup_clicks = 2
    /\ cleanup_end = "gone"

\* a measure of the work the driver has left: every step makes it smaller
LoopRank ==
    (max_clicks - click_count) * 25
    + (NO_BUTTON_LIMIT - no_button_checks) + (FAILURE_LIMIT - consecutive_failures)

DriverRank ==
    CASE dpc = "start" -> MAX_CLICKS * 25 + 100
      [] dpc = "loop" -> LoopRank + 70
      [] dpc = "post" -> 53
      [] dpc = "cleanup" -> 1 + CLEANUP_ATTEMPTS - cleanup_i
      [] OTHER -> 0

\* the clicks of the main loop and of the cleanup stay within their limits
ClicksBounded ==
    /\ click_count <= max_clicks
    /\ cleanup_clicks <= CLEANUP_ATTEMPTS
    /\ cleanup_i <= CLEANUP_ATTEMPTS

\* for every source the main loop and the cleanup end within a bounded
\* number of iterations, and the clicks stay within their limits
DriverBounded ==
    /\ []ClicksBounded
    /\ [](DriverRank >= 0)
    /\ [][DriverRank' < DriverRank]_vars

\* C32: whatever the source does at each attempt, the driver leaves its main
\* loop and its cleanup after a bounded number of iterations, with at most
\* max_clicks clicks in the main loop and at most 50 in cleanup, and ends by
\* returning a list: no error leaves the function.
C32_DriverTerminates ==
    /\ []ClicksBounded
    /\ [](DriverRank >= 0)
    /\ [][DriverRank' < DriverRank]_vars
    /\ [](dpc # "raised")

(***************************************************************************)
(* patch_missing_ranks.py: get_players_from_list                           *)
(*                                                                         *)
(* The same kind of list page.  A click that goes through by the           *)
(* JavaScript fallback may load nothing.                                   *)
(***************************************************************************)

CLICK_BUFFER == 5
RANGE_MARGIN == 5
OBSERVE_EVERY == 5
SAFETY_MARGIN == 50
LIST_FAILURE_LIMIT == 5
RANKS_PER_CLICK == 50

\* clicks_needed = (max_rank_needed // 50) + 5
clicks_needed == (max_rank_needed \div RANKS_PER_CLICK) + CLICK_BUFFER

\* a range without the buffer and the margin
LoopRangeShort == (max_rank_needed \div RANKS_PER_CLICK) - 1

\* range(clicks_needed + 5)
LoopRange == clicks_needed + RANGE_MARGIN

\* items > max_rank_needed + 100: a wider margin than intended
EnoughLoadedWide(items) == items > max_rank_needed + 2 * SAFETY_MARGIN

\* if items > max_rank_needed + 50
EnoughLoaded(items) == items > max_rank_needed + SAFETY_MARGIN

MaxRanks == {5, 120, 300}
ListTotals == {PageSize * k : k \in {1, 3, 6, 12, 40}}

ListMayBeVisible == l_flaky \/ l_loaded < l_total
ListMayBeAbsent == l_flaky \/ l_loaded >= l_total

ListInit ==
    /\ lpc = "start"
    /\ max_rank_needed \in MaxRanks
    /\ l_total \in ListTotals
    /\ l_flaky \in BOOLEAN
    /\ l_loaded = 0
    /\ l_i = 0
    /\ l_click_count = 0
    /\ l_failures = 0
    /\ l_no_button = 0
    /\ l_items = 0
    /\ l_end = "none"
    /\ l_mapped = 0
    /\ l_fail_run = 0
    /\ l_absent_run = 0

\* page.goto
OpenRankList ==
    /\ lpc = "start"
    /\ lpc' = "loop"
    /\ l_loaded' = IF PageSize < l_total THEN PageSize ELSE l_total
    /\ UNCHANGED <<max_rank_needed, l_total, l_flaky, l_i, l_click_count, l_failures,
                   l_no_button, l_items, l_end, l_mapped, notList>>
    /\ UNCHANGED <<l_fail_run, l_absent_run>>

\* page.goto raises: return {}
OpenRankListFails ==
    /\ lpc = "start"
    /\ l_flaky
    /\ lpc' = "done"
    /\ l_end' = "not_loaded"
    /\ UNCHANGED <<max_rank_needed, l_total, l_flaky, l_loaded, l_i, l_click_count,
                   l_failures, l_no_button, l_items, l_mapped, notList>>
    /\ UNCHANGED <<l_fail_run, l_absent_run>>

\* the button is visible and is clicked (directly or by the fallback); every
\* fifth click the entries are counted and the loop stops if they are enough
ListClick ==
    /\ lpc = "loop"
    /\ l_i < LoopRange
    /\ ListMayBeVisible
    /\ \E grown \in {l_loaded, IF l_loaded + PageSize < l_total
                                THEN l_loaded + PageSize ELSE l_total} :
         /\ grown = l_loaded => (l_flaky \/ l_loaded = l_total)
         /\ l_loaded' = grown
         /\ IF (l_click_count + 1) % OBSERVE_EVERY = 0
            THEN /\ l_items' = grown
                 /\ IF EnoughLoaded(grown)
                    THEN /\ lpc' = "done"
                         /\ l_end' = "enough"
                         /\ l_mapped' = grown
                    ELSE UNCHANGED <<lpc, l_end, l_mapped>>
            ELSE UNCHANGED <<l_items, lpc, l_end, l_mapped>>
    /\ l_click_count' = l_click_count + 1
    /\ l_failures' = 0
    /\ l_no_button' = 0
    /\ l_i' = l_i + 1
    /\ UNCHANGED <<max_rank_needed, l_total, l_flaky, notList>>
    /\ l_fail_run' = 0
    /\ l_absent_run' = 0

\* no button
ListNoButton ==
    /\ lpc = "loop"
    /\ l_i < LoopRange
    /\ ListMayBeAbsent
    /\ l_no_button' = l_no_button + 1
    /\ l_i' = l_i + 1
    /\ IF l_no_button + 1 >= NO_BUTTON_LIMIT
       THEN /\ l_items' = l_loaded
            /\ lpc' = "done"
            /\ l_end' = "all"
            /\ l_mapped' = l_loaded
       ELSE UNCHANGED <<l_items, lpc, l_end, l_mapped>>
    /\ UNCHANGED <<max_rank_needed, l_total, l_flaky, l_loaded, l_click_count,
                   l_failures, notList>>
    /\ l_fail_run' = 0
    /\ l_absent_run' = UpTo(l_absent_run + 1, NO_BUTTON_LIMIT)

\* the except branch of the loop
ListFailed(checks) ==
    /\ l_failures' = l_failures + 1
    /\ l_no_button' = checks
    /\ l_i' = l_i + 1
    /\ l_fail_run' = UpTo(l_fail_run + 1, LIST_FAILURE_LIMIT)
    /\ l_absent_run' = 0
    /\ IF l_failures + 1 >= LIST_FAILURE_LIMIT
       THEN /\ lpc' = "done"
            /\ l_end' = "failures"
            /\ l_mapped' = l_loaded
       ELSE UNCHANGED <<lpc, l_end, l_mapped>>
    /\ UNCHANGED <<max_rank_needed, l_total, l_flaky, l_loaded, l_click_count,
                   l_items, notList>>

\* the attempt raises before a click is made or a missing button is counted
ListAttemptRaises ==
    /\ lpc = "loop"
    /\ l_i < LoopRange
    /\ l_flaky
    /\ ListFailed(l_no_button)

\* no button for the third time, and the count of the entries raises
ListNoButtonThenRaise ==
    /\ lpc = "loop"
    /\ l_i < LoopRange
    /\ l_flaky
    /\ l_no_button + 1 >= NO_BUTTON_LIMIT
    /\ ListFailed(l_no_button + 1)

\* the range of the loop is used up
ListRangeDone ==
    /\ lpc = "loop"
    /\ l_i >= LoopRange
    /\ lpc' = "done"
    /\ l_end' = "range"
    /\ l_mapped' = l_loaded
    /\ UNCHANGED <<max_rank_needed, l_total, l_flaky, l_loaded, l_i, l_click_count,
                   l_failures, l_no_button, l_items, notList>>
    /\ UNCHANGED <<l_fail_run, l_absent_run>>

NextList ==
    \/ OpenRankList \/ OpenRankListFails
    \/ ListClick \/ ListNoButton \/ ListAttemptRaises \/ ListNoButtonThenRaise
    \/ ListRangeDone

\* the other components stay as constructed
ListStart == ListInit /\ ListAlone

SpecList == ListStart /\ [][NextList]_vars

\* C8: once the loop has read a count of entries above max_rank_needed + 50,
\* it issues no further click.
C8_EarlyExit ==
    [][(l_items > max_rank_needed + 50) => (l_click_count' = l_click_count)]_vars

\* C8 witness: the loop stopped on a count above the ceiling plus the margin
\* while the listing had more to load
C8_Witness ==
    /\ lpc = "done"
    /\ l_end = "enough"
    /\ l_items > max_rank_needed + 50
    /\ l_loaded < l_total
    /\ ~l_flaky

RangeNeverUsedUp == (lpc = "done" /\ ~l_flaky) => l_end # "range"

(***************************************************************************)
(* patch_missing_ranks.py: main, for one year of KNOWN_GAPS                *)
(*                                                                         *)
(* The composite list is consulted first; the ranks it holds are fetched;  *)
(* the 247-only list is consulted for the 247 ranks no fetched profile     *)
(* showed.  Creating a browser context or a page is taken not to raise.    *)
(***************************************************************************)

PATCH_YEAR == <<"2", "0", "1", "9">>

\* str(n) of Python, for the ranks of a list
DigitOf(d) ==
    CASE d = 0 -> "0" [] d = 1 -> "1" [] d = 2 -> "2" [] d = 3 -> "3" [] d = 4 -> "4"
      [] d = 5 -> "5" [] d = 6 -> "6" [] d = 7 -> "7" [] d = 8 -> "8" [] d = 9 -> "9"

RECURSIVE str(_)
str(n) == IF n < 10 THEN <<DigitOf(n)>> ELSE str(n \div 10) \o <<DigitOf(n % 10)>>

\* for rank in gaps['composite'] (lines 462-475): the dict after the ranks
\* from position k on
RECURSIVE AddTargets(_, _, _, _)
AddTargets(targets, ranks, map, k) ==
    IF k > Len(ranks) THEN targets
    ELSE LET rank == ranks[k]
         IN  IF rank \in DOMAIN map
             THEN LET url == map[rank]
                      at == {i \in 1..Len(targets) : targets[i].url = url}
                  IN  IF at = {}
                      THEN AddTargets(Append(targets,
                                             [url |-> url,
                                              missing_composite_rank |-> rank,
                                              missing_247_rank |-> "None"]),
                                      ranks, map, k + 1)
                      ELSE AddTargets([i \in 1..Len(targets) |->
                                          IF i \in at
                                          THEN [targets[i] EXCEPT
                                                   !.missing_composite_rank = rank]
                                          ELSE targets[i]],
                                      ranks, map, k + 1)
             ELSE AddTargets(targets, ranks, map, k + 1)

\* the ranks of a list that a map does not hold
NotOnList(ranks, map) == {ranks[k] : k \in 1..Len(ranks)} \ DOMAIN map

\* parse_profile: the record of a profile; everything is "NA" but the URL when
\* the page does not load
parse_profile(url, loads) ==
    LET id == extract_player_id(url)
    IN  IF loads /\ id \in DOMAIN site
        THEN [id |-> id, url |-> url, r247 |-> site[id].r247, rcomp |-> site[id].rcomp]
        ELSE [id |-> IF loads THEN id ELSE S_NA, url |-> url, r247 |-> S_NA,
              rcomp |-> S_NA]

\* f"{year}_{data['247 ID']}"
DiagKey(id) == PATCH_YEAR \o <<"_">> \o id

\* the entry of diagnostics for a fetched profile
DiagEntry(target, data) ==
    [url |-> target.url,
     expected_composite_rank |-> target.missing_composite_rank,
     got_247_rank |-> data.r247,
     got_composite_rank |-> data.rcomp,
     success |-> (data.r247 # S_NA \/ data.rcomp # S_NA)]

\* [r for r in gaps['247'] if not any(d.get('got_247_rank') == str(r) ...)]
RECURSIVE NotCovered(_, _, _)
NotCovered(ranks, diag, k) ==
    IF k > Len(ranks) THEN <<>>
    ELSE (IF \E key \in DOMAIN diag : diag[key].got_247_rank = str(ranks[k])
          THEN <<>> ELSE <<ranks[k]>>) \o NotCovered(ranks, diag, k + 1)

\* any(d['url'] == player['url'] for d in diagnostics.values())
already_scraped(url) == \E key \in DOMAIN diagnostics : diagnostics[key].url = url

\* ---- the lists, the gaps and the profiles of the model ----

UrlA == BuildUrl([scheme |-> H_HTTPS, www |-> 0, host |-> S_HOST, kind |-> "player",
                  slug |-> SlugA, suffix |-> <<"/">>, tail |-> <<>>])
UrlA2 == BuildUrl([scheme |-> H_HTTP, www |-> 1, host |-> S_HOST, kind |-> "player",
                   slug |-> SlugA, suffix |-> <<"/">>, tail |-> <<"?", "q">>])
UrlB == BuildUrl([scheme |-> H_HTTPS, www |-> 0, host |-> S_HOST, kind |-> "player",
                  slug |-> SlugB, suffix |-> <<"/">>, tail |-> <<>>])

CompositeGaps == {<<>>, <<5>>, <<5, 9>>, <<5, 9, 17>>}
Gaps247 == {<<>>, <<1>>, <<1, 5>>}

\* the maps from some of the ranks to the urls
MapsOf(ranks, urls) == UNION {[d -> urls] : d \in SUBSET ranks}

CompositeMaps == MapsOf({5, 9}, {UrlA, UrlA2, UrlB})
OnlyMaps247 == MapsOf({1, 5}, {UrlA, UrlB})

PlayerIds == {extract_player_id(UrlA), extract_player_id(UrlB)}
Pages == {[r247 |-> S_NA, rcomp |-> S_NA], [r247 |-> str(1), rcomp |-> S_NA],
          [r247 |-> str(5), rcomp |-> str(9)]}

PatchInit ==
    /\ ppc = "start"
    /\ site \in [PlayerIds -> Pages]
    /\ gaps \in [composite : CompositeGaps, r247 : Gaps247]
    /\ rank_map = <<>>
    /\ target_players = <<>>
    /\ p_i = 1
    /\ all_patched = <<>>
    /\ diagnostics = <<>>
    /\ missing_247_not_covered = <<>>
    /\ r247_map = <<>>
    /\ q_i = 1
    /\ reported = {}
    /\ notices = {}

\* get_players_from_list returned a map with entries: the players to fetch
\* are identified and the composite ranks that are not on the list are printed
BuildTargets ==
    /\ ppc = "start"
    /\ \E map \in CompositeMaps :
         /\ DOMAIN map # {}
         /\ rank_map' = map
         /\ target_players' = AddTargets(<<>>, gaps.composite, map, 1)
         /\ reported' = reported \cup
                          {<<"composite", r>> : r \in NotOnList(gaps.composite, map)}
    /\ ppc' = "scrape"
    /\ UNCHANGED <<site, gaps, p_i, all_patched, diagnostics, missing_247_not_covered,
                   r247_map, q_i, notices, notPatch>>

\* if not rank_map: "Could not load list for {year}, skipping"; continue
SkipYear ==
    /\ ppc = "start"
    /\ rank_map' = <<>>
    /\ notices' = notices \cup {"Could not load list"}
    /\ ppc' = "done"
    /\ UNCHANGED <<site, gaps, target_players, p_i, all_patched, diagnostics,
                   missing_247_not_covered, r247_map, q_i, reported, notPatch>>

\* one turn of the loop over target_players.items()
ScrapeTarget ==
    /\ ppc = "scrape"
    /\ p_i <= Len(target_players)
    /\ \E loads \in BOOLEAN :
         LET target == target_players[p_i]
             data == parse_profile(target.url, loads)
         IN  /\ all_patched' = Append(all_patched, data)
             /\ diagnostics' = (DiagKey(data.id) :> DiagEntry(target, data)) @@ diagnostics
    /\ p_i' = p_i + 1
    /\ UNCHANGED <<ppc, site, gaps, rank_map, target_players, missing_247_not_covered,
                   r247_map, q_i, reported, notices, notPatch>>

\* the loop is over: the 247 ranks no fetched profile showed
AfterScrape ==
    /\ ppc = "scrape"
    /\ p_i > Len(target_players)
    /\ missing_247_not_covered' = NotCovered(gaps.r247, diagnostics, 1)
    /\ ppc' = IF NotCovered(gaps.r247, diagnostics, 1) # <<>> THEN "load247" ELSE "done"
    /\ UNCHANGED <<site, gaps, rank_map, target_players, p_i, all_patched, diagnostics,
                   r247_map, q_i, reported, notices, notPatch>>

\* the 247-only list is loaded and its ranks are read
Load247List ==
    /\ ppc = "load247"
    /\ r247_map' \in OnlyMaps247
    /\ ppc' = "lookup247"
    /\ UNCHANGED <<site, gaps, rank_map, target_players, p_i, all_patched, diagnostics,
                   missing_247_not_covered, q_i, reported, notices, notPatch>>

\* except: "Failed to load 247-only list"
Load247Fails ==
    /\ ppc = "load247"
    /\ notices' = notices \cup {"Failed to load 247-only list"}
    /\ ppc' = "done"
    /\ UNCHANGED <<site, gaps, rank_map, target_players, p_i, all_patched, diagnostics,
                   missing_247_not_covered, r247_map, q_i, reported, notPatch>>

\* one turn of the loop over missing_247_not_covered
Lookup247 ==
    /\ ppc = "lookup247"
    /\ q_i <= Len(missing_247_not_covered)
    /\ LET rank == missing_247_not_covered[q_i]
       IN  IF rank \in DOMAIN r247_map
           THEN /\ IF already_scraped(r247_map[rank])
                   THEN UNCHANGED all_patched
                   ELSE \E loads \in BOOLEAN :
                          all_patched' =
                              Append(all_patched, parse_profile(r247_map[rank], loads))
                /\ UNCHANGED reported
           ELSE /\ reported' = reported \cup {<<"247", rank>>}
                /\ UNCHANGED all_patched
    /\ q_i' = q_i + 1
    /\ UNCHANGED <<ppc, site, gaps, rank_map, target_players, p_i, diagnostics,
                   missing_247_not_covered, r247_map, notices, notPatch>>

\* the loop is over
After247 ==
    /\ ppc = "lookup247"
    /\ q_i > Len(missing_247_not_covered)
    /\ ppc' = "done"
    /\ UNCHANGED <<site, gaps, rank_map, target_players, p_i, all_patched, diagnostics,
                   missing_247_not_covered, r247_map, q_i, reported, notices, notPatch>>

NextPatch ==
    \/ BuildTargets \/ SkipYear \/ ScrapeTarget \/ AfterScrape
    \/ Load247List \/ Load247Fails \/ Lookup247 \/ After247

\* the other components stay as constructed
PatchStart == PatchInit /\ PatchAlone

SpecPatch == PatchStart /\ [][NextPatch]_vars

\* the composite ranks requested, and those of them the list holds
Requested == {gaps.composite[k] : k \in 1..Len(gaps.composite)}
OnList == Requested \cap DOMAIN rank_map

\* the refetch set is settled once the composite list has been consulted
TargetsBuilt == ppc \in {"scrape", "load247", "lookup247", "done"}

\* C9 as stated: for any composite rank map M and gap list G, once the list
\* has been consulted the refetch set is exactly {M[r] : r in G, r in dom M},
\* each entry carries a requested rank that M maps to it, each requested rank
\* that M holds has exactly one entry, and each requested rank that M does
\* not hold has been reported as not found.
C9_ResolvesGaps ==
    TargetsBuilt =>
        /\ {target_players[i].url : i \in 1..Len(target_players)}
              = {rank_map[r] : r \in OnList}
        /\ \A i \in 1..Len(target_players) :
              /\ target_players[i].missing_composite_rank \in OnList
              /\ rank_map[target_players[i].missing_composite_rank] = target_players[i].url
        /\ \A r \in OnList :
              Cardinality({i \in 1..Len(target_players) :
                              target_players[i].url = rank_map[r]}) = 1
        /\ \A r \in Requested \ DOMAIN rank_map : <<"composite", r>> \in reported

\* the same for the maps that hold at least one rank
ResolvesGapsOfLoadedList == (DOMAIN rank_map # {}) => C9_ResolvesGaps

\* the example of the specification: {5 -> A, 9 -> B} and gaps 5, 9, 17 give
\* the refetch set {A, B} and the miss set {17}
ExampleResolved ==
    (/\ TargetsBuilt
     /\ gaps.composite = <<5, 9, 17>>
     /\ DOMAIN rank_map = {5, 9} /\ rank_map[5] = UrlA /\ rank_map[9] = UrlB)
    => (/\ target_players =
            <<[url |-> UrlA, missing_composite_rank |-> 5, missing_247_rank |-> "None"],
              [url |-> UrlB, missing_composite_rank |-> 9, missing_247_rank |-> "None"]>>
        /\ {m \in reported : m[1] = "composite"} = {<<"composite", 17>>})

\* a composite rank was resolved to a fetched profile
CompositeResolved(r) ==
    /\ r \in DOMAIN rank_map
    /\ \E i \in 1..Len(all_patched) : all_patched[i].url = rank_map[r]

\* a 247 rank was resolved to a fetched profile: one that shows the rank, or
\* the one the 247-only list holds at the rank
Resolved247(r) ==
    \/ \E i \in 1..Len(all_patched) : all_patched[i].r247 = str(r)
    \/ /\ r \in DOMAIN r247_map
       /\ \E i \in 1..Len(all_patched) : all_patched[i].url = r247_map[r]

\* C10 as stated: when the year is finished, every requested rank of either
\* list that was not resolved to a fetched profile has been reported as a miss,
\* whatever the outcome of loading the two lists.
C10_MissesReported ==
    ppc = "done" =>
        /\ \A r \in Requested :
              CompositeResolved(r) \/ <<"composite", r>> \in reported
        /\ \A k \in 1..Len(gaps.r247) :
              Resolved247(gaps.r247[k]) \/ <<"247", gaps.r247[k]>> \in reported

\* the same for the years whose two lists were loaded
MissesReportedWhenListsLoad ==
    (notices = {}) => C10_MissesReported

\* the URLs handed to parse_profile so far, in order
Fetched == [i \in 1..Len(all_patched) |-> all_patched[i].url]

\* C11: within a patch run no entity is passed to parse_profile twice: no two
\* fetches are for URLs with the same normalized locator, whichever list each
\* came from and whatever the raw form of its URL.
C11_FetchOnce ==
    \A i, j \in 1..Len(Fetched) :
        i # j => normalize_player_url(Fetched[i]) # normalize_player_url(Fetched[j])

\* the same for raw URLs that are equal character by character, within the
\* composite pass
FetchOnceSameRawUrl ==
    \A i, j \in 1..Len(target_players) :
        i # j => target_players[i].url # target_players[j].url

\* C12: the entry of an entity in the refetch set lists every requested rank
\* that led to it: each requested composite rank the list maps to the entity,
\* and each requested 247 rank the 247-only list maps to it; none is
\* overwritten or left empty.
C12_ReasonsAccumulated ==
    TargetsBuilt =>
        \A i \in 1..Len(target_players) :
            /\ \A r \in OnList :
                  rank_map[r] = target_players[i].url
                      => target_players[i].missing_composite_rank = r
            /\ \A k \in 1..Len(gaps.r247) :
                  (/\ gaps.r247[k] \in DOMAIN r247_map
                   /\ r247_map[gaps.r247[k]] = target_players[i].url)
                      => target_players[i].missing_247_rank # "None"

(***************************************************************************)
(* patch_missing_ranks.py: get_players_from_list, from the items read off  *)
(* the page to the map it returns                                          *)
(***************************************************************************)

MaxItems == 3

\* for item in items_data: rank_to_player[item['rank']] = {...}
RECURSIVE RankToPlayer(_, _, _)
RankToPlayer(items, k, map) ==
    IF k > Len(items) THEN map
    ELSE RankToPlayer(items, k + 1, (items[k].rank :> items[k].url) @@ map)

\* the items a page may show: a rank and the href of the name link
PageItems == [rank : {5, 9}, url : {UrlA, UrlB}]
ItemLists == UNION {[1..n -> PageItems] : n \in 0..MaxItems}

RanksInit ==
    /\ xpc = "items"
    /\ items_data \in ItemLists
    /\ rank_to_player = <<>>
    /\ mapped_printed = 0

\* the map is built, its size is printed and it is returned
BuildRankMap ==
    /\ xpc = "items"
    /\ rank_to_player' = RankToPlayer(items_data, 1, <<>>)
    /\ mapped_printed' = Cardinality(DOMAIN RankToPlayer(items_data, 1, <<>>))
    /\ xpc' = "done"
    /\ UNCHANGED <<items_data, notRanks>>

NextRanks == BuildRankMap

\* the other components stay as constructed
RanksStart == RanksInit /\ RanksAlone

SpecRanks == RanksStart /\ [][NextRanks]_vars

\* C13: when two items read off the page carry the same rank, neither is
\* dropped from the map that is returned: every item is found in it, and the
\* number reported is the number of items.
C13_TiesKept ==
    xpc = "done" =>
        /\ \A k \in 1..Len(items_data) :
              \E r \in DOMAIN rank_to_player : rank_to_player[r] = items_data[k].url
        /\ mapped_printed = Len(items_data)

\* the same for pages on which every rank occurs once
NoTieNothingDropped ==
    (/\ xpc = "done"
     /\ \A i, j \in 1..Len(items_data) :
           i # j => items_data[i].rank # items_data[j].rank)
    => (/\ \A k \in 1..Len(items_data) :
              /\ items_data[k].rank \in DOMAIN rank_to_player
              /\ rank_to_player[items_data[k].rank] = items_data[k].url
        /\ mapped_printed = Len(items_data))

(***************************************************************************)
(* scraper.py: normalize_date, is_date_valid_for_class, parse_timeline     *)
(*                                                                         *)
(* A date text is the text the date pattern of parse_timeline matched:     *)
(* digits with slashes ("slash") or a word, a day and a year ("month").    *)
(* Month 13 stands for a month field strptime does not accept (the word    *)
(* "Sept", the digits 13).  A timeline item is what the code reads off its *)
(* text: the priority of its keywords, the date text and the team the      *)
(* team pattern captures, if any.                                          *)
(***************************************************************************)

CLASS_YEAR == 2020
CUTOFF_MONTH == 9
CUTOFF_DAY == 1
COMMITMENT == 100
SIGNING == 1
NO_PRIORITY == -1
MAX_PAGES == 10

IsLeap(y) == (y % 4 = 0 /\ y % 100 # 0) \/ y % 400 = 0

DaysIn(m, y) ==
    IF m = 2 THEN (IF IsLeap(y) THEN 29 ELSE 28)
    ELSE IF m \in {4, 6, 9, 11} THEN 30 ELSE 31

NA_DATE == [form |-> "NA", m |-> 0, d |-> 0, y |-> 0]

\* datetime.strptime(text, fmt) does not raise ValueError
Parses(text, fmt) ==
    /\ text.form = fmt
    /\ text.m \in 1..12
    /\ text.d \in 1..DaysIn(text.m, text.y)

\* normalize_date: the first format that parses gives "%m/%d/%Y"; a text that
\* no format parses is returned as it is
normalize_date(text) ==
    IF text.form = "NA" THEN NA_DATE
    ELSE IF Parses(text, "padded") \/ Parses(text, "slash") \/ Parses(text, "month")
         THEN [text EXCEPT !.form = "padded"]
         ELSE text

\* strptime("%m/%d/%Y") accepts one- and two-digit months and days
ParsesAsSlash(date) == Parses(date, "padded") \/ Parses(date, "slash")

\* an is_date_valid_for_class whose except branch returns False
is_date_valid_strict(date, year) ==
    /\ date.form # "NA"
    /\ ParsesAsSlash(date)
    /\ \/ date.y < year
       \/ date.y = year /\ date.m < CUTOFF_MONTH
       \/ date.y = year /\ date.m = CUTOFF_MONTH /\ date.d < CUTOFF_DAY

\* is_date_valid_for_class: dt < datetime(year, 9, 1); True when strptime raises
is_date_valid_for_class(date, year) ==
    IF date.form = "NA" THEN FALSE
    ELSE IF ParsesAsSlash(date)
         THEN \/ date.y < year
              \/ date.y = year /\ date.m < CUTOFF_MONTH
              \/ date.y = year /\ date.m = CUTOFF_MONTH /\ date.d < CUTOFF_DAY
         ELSE TRUE

\* the item is accepted: its date is found and valid and its priority is
\* above the one recorded
Accepted(d, item) ==
    /\ item.priority > 0
    /\ normalize_date(item.date) # NA_DATE
    /\ is_date_valid_for_class(normalize_date(item.date), CLASS_YEAR)
    /\ item.priority > d.priority

\* the record after one item of either tier
AfterItem(d, item) ==
    IF Accepted(d, item)
    THEN [signed_date |-> normalize_date(item.date),
          priority    |-> item.priority,
          signed_team |-> IF item.team # "none" THEN item.team ELSE d.signed_team]
    ELSE d

\* the "DRAFT LOGIC" of the abbreviated timeline: the first date and the first
\* team of the items with "draft" in their text
DraftAfter(dd, item) ==
    IF item.draft
    THEN [draft_date |-> IF item.date # NA_DATE /\ dd.draft_date = NA_DATE
                         THEN normalize_date(item.date) ELSE dd.draft_date,
          draft_team |-> IF item.team # "none" /\ dd.draft_team = "NA"
                         THEN item.team ELSE dd.draft_team]
    ELSE dd

\* "while page_count <= max_pages"
MorePagesInclusive(count) == count <= MAX_PAGES

\* "while page_count < max_pages"
MorePages(count) == count < MAX_PAGES

\* ---- the timelines of the model ----

MaxScan == 3

DateTexts ==
    {[form |-> "slash", m |-> 1, d |-> 15, y |-> CLASS_YEAR],     \* 1/15/2020
     [form |-> "month", m |-> 8, d |-> 31, y |-> CLASS_YEAR],     \* Aug 31, 2020
     [form |-> "slash", m |-> 9, d |-> 1, y |-> CLASS_YEAR],      \* 9/1/2020
     [form |-> "month", m |-> 13, d |-> 5, y |-> CLASS_YEAR]}     \* Sept 5, 2020

\* an item with "draft" in its text: its date and the team that selects
DRAFT_ITEM ==
    [priority |-> 0, date |-> [form |-> "month", m |-> 8, d |-> 31, y |-> CLASS_YEAR],
     team |-> "T1", draft |-> TRUE]

TimelineItems ==
    [priority : {COMMITMENT, SIGNING}, date : DateTexts, team : {"none", "T1", "T2"},
     draft : {FALSE}]
    \cup [priority : {COMMITMENT, SIGNING}, date : {NA_DATE}, team : {"none"},
          draft : {FALSE}]
    \cup [priority : {0}, date : {NA_DATE}, team : {"none"}, draft : {FALSE}]
    \cup {DRAFT_ITEM}

TimelineInit ==
    /\ tpc = "summary"
    /\ do_deep_dive \in BOOLEAN
    /\ tl_data = [signed_date |-> NA_DATE, signed_team |-> "NA", priority |-> NO_PRIORITY]
    /\ draft_data = [draft_date |-> NA_DATE, draft_team |-> "NA"]
    /\ scanned = <<>>
    /\ page_count = 0

\* one item of the abbreviated timeline
ScanSummaryItem ==
    /\ tpc = "summary"
    /\ Len(scanned) < MaxScan
    /\ \E item \in TimelineItems :
         /\ tl_data' = AfterItem(tl_data, item)
         /\ draft_data' = DraftAfter(draft_data, item)
         /\ scanned' = Append(scanned, [item |-> item, tier |-> "summary"])
    /\ UNCHANGED <<tpc, do_deep_dive, page_count, notTimeline>>

\* no deep dive: the flag is off, the page has no link to the full timeline,
\* or loading the full timeline raises
SkipHistory ==
    /\ tpc = "summary"
    /\ tpc' = "done"
    /\ UNCHANGED <<do_deep_dive, tl_data, draft_data, scanned, page_count, notTimeline>>

\* page.goto(full_timeline_url)
OpenHistory ==
    /\ tpc = "summary"
    /\ do_deep_dive
    /\ tpc' = "deep"
    /\ UNCHANGED <<do_deep_dive, tl_data, draft_data, scanned, page_count, notTimeline>>

\* one item of a page of the full timeline; an accepted Commitment returns
ScanDeepItem ==
    /\ tpc = "deep"
    /\ Len(scanned) < MaxScan
    /\ \E item \in TimelineItems :
         /\ tl_data' = AfterItem(tl_data, item)
         /\ scanned' = Append(scanned, [item |-> item, tier |-> "deep"])
         /\ tpc' = IF Accepted(tl_data, item) /\ item.priority = COMMITMENT
                   THEN "done" ELSE "deep"
    /\ UNCHANGED <<do_deep_dive, draft_data, page_count, notTimeline>>

\* the items of the page are done and the next button is clicked
NextHistoryPage ==
    /\ tpc = "deep"
    /\ page_count' = page_count + 1
    /\ tpc' = IF MorePages(page_count + 1) THEN "deep" ELSE "done"
    /\ UNCHANGED <<do_deep_dive, tl_data, draft_data, scanned, notTimeline>>

\* the items of the page are done and there is no next button, or the click
\* raises
HistoryEnds ==
    /\ tpc = "deep"
    /\ tpc' = "done"
    /\ UNCHANGED <<do_deep_dive, tl_data, draft_data, scanned, page_count, notTimeline>>

NextTimeline ==
    \/ ScanSummaryItem \/ SkipHistory \/ OpenHistory
    \/ ScanDeepItem \/ NextHistoryPage \/ HistoryEnds

\* the other components stay as constructed
TimelineStart == TimelineInit /\ TimelineAlone

SpecTimeline == TimelineStart /\ [][NextTimeline]_vars

\* the text names a day of the calendar
IsCalendarDate(text) ==
    /\ text.form # "NA"
    /\ text.m \in 1..12
    /\ text.d \in 1..DaysIn(text.m, text.y)

\* the day falls strictly before September 1 of the recruiting year
BeforeCutoff(text) ==
    /\ IsCalendarDate(text)
    /\ \/ text.y < CLASS_YEAR
       \/ text.y = CLASS_YEAR /\ text.m < 9

\* a Commitment or Signing item whose date passes the cutoff
ValidEvent(item) == item.priority > 0 /\ BeforeCutoff(item.date)

MaxIn(S) == CHOOSE x \in S : \A y \in S : y <= x

\* C14: at the end of parse_timeline the recorded priority is the maximum
\* priority of the scanned items whose date passes the cutoff: 100 for a
\* commitment, 1 for a signing, -1 if there is none.
C14_MaxPriority ==
    tpc = "done" =>
        tl_data.priority =
            MaxIn({-1} \cup {scanned[i].item.priority :
                               i \in {k \in 1..Len(scanned) : ValidEvent(scanned[k].item)}})

\* the same with the dates the code takes for valid
MaxPriorityOfDatesTakenValid ==
    tpc = "done" =>
        tl_data.priority =
            MaxIn({-1} \cup {scanned[i].item.priority :
                               i \in {k \in 1..Len(scanned) :
                                        /\ scanned[k].item.priority > 0
                                        /\ is_date_valid_for_class(
                                               normalize_date(scanned[k].item.date),
                                               CLASS_YEAR)}})

\* C15: an item changes the record only if its date falls strictly before
\* September 1 of the recruiting year and its priority is strictly above the
\* recorded one.
C15_AcceptanceRule ==
    [][tl_data' # tl_data =>
          /\ BeforeCutoff(scanned'[Len(scanned')].item.date)
          /\ scanned'[Len(scanned')].item.priority > tl_data.priority]_vars

\* the same without the condition on the date: an item of equal or lower
\* priority never changes the record
LowerPriorityNeverAccepted ==
    [][tl_data' # tl_data =>
          scanned'[Len(scanned')].item.priority > tl_data.priority]_vars

\* a Commitment with a valid date was scanned in the full history
DeepCommitmentScanned ==
    \E i \in 1..Len(scanned) :
        /\ scanned[i].tier = "deep"
        /\ scanned[i].item.priority = 100
        /\ BeforeCutoff(scanned[i].item.date)

\* C16: once a Commitment with a valid date has been scanned in the full
\* history, no further item is examined and no further page is requested.
C16_EarlyExit ==
    [][DeepCommitmentScanned => (scanned' = scanned /\ page_count' = page_count)]_vars

\* the same for the entities whose summary tier recorded no commitment
EarlyExitWhenNoneRecorded ==
    [][(/\ DeepCommitmentScanned
        /\ \A i \in 1..Len(scanned) :
              scanned[i].tier = "summary" => scanned[i].item.priority # 100)
       => (scanned' = scanned /\ page_count' = page_count)]_vars

\* the team of an item as the record holds it
TeamOf(item) == IF item.team = "none" THEN "NA" ELSE item.team

\* C17: when a valid Signing item was scanned and a valid Commitment item
\* after it, the final record has priority 100 and its Signed Date and its
\* Signed Team are both those of one Commitment item.
C17_CommitmentWins ==
    (/\ tpc = "done"
     /\ \E i, j \in 1..Len(scanned) :
           /\ i < j
           /\ ValidEvent(scanned[i].item) /\ scanned[i].item.priority = 1
           /\ ValidEvent(scanned[j].item) /\ scanned[j].item.priority = 100)
    => /\ tl_data.priority = 100
       /\ \E k \in 1..Len(scanned) :
             /\ ValidEvent(scanned[k].item) /\ scanned[k].item.priority = 100
             /\ tl_data.signed_date = normalize_date(scanned[k].item.date)
             /\ tl_data.signed_team = TeamOf(scanned[k].item)

\* the same for the priority and the date alone
CommitmentDateWins ==
    (/\ tpc = "done"
     /\ \E i, j \in 1..Len(scanned) :
           /\ i < j
           /\ ValidEvent(scanned[i].item) /\ scanned[i].item.priority = 1
           /\ ValidEvent(scanned[j].item) /\ scanned[j].item.priority = 100)
    => tl_data.priority = 100

(***************************************************************************)
(* SpecExec: scrape_year, scrape_player_batch and scrape_player over a     *)
(* listing whose locators are named by their position in the sequence      *)
(* click_load_more_until_complete returned (1 is the first locator).       *)
(* At most one entity of a run fails, at one of these steps:               *)
(*   "open"        context.new_page raises in scrape_player_batch          *)
(*   "navigation"  page.goto raises in parse_profile                       *)
(*   "extraction"  the header extraction raises in parse_profile           *)
(*   "close"       page.close raises in the finally of scrape_player       *)
(***************************************************************************)

DEEP_TIMELINE_LIMIT == 1000

MaxOver == 2
MaxResume == 2
MaxFailUrl == 5

FailSteps == {"open", "navigation", "extraction", "close"}

NoFail == [url |-> 0, step |-> "none"]

\* the step at which the processing of url fails, "none" when it does not
StepOf(url, fail) == IF fail.url = url THEN fail.step ELSE "none"

\* player_num of the i-th locator (from 0) of window batch_num
player_num(batch_num, i) == batch_num * MAX_CONCURRENT + i + 1

\* parse_profile: the record it returns; its except clause returns the record
\* as far as it was filled
ProfileRecord(url, step) ==
    [kind   |-> "record",
     url    |-> url,
     filled |-> IF step = "navigation" THEN "none"
                ELSE IF step = "extraction" THEN "some" ELSE "all"]

\* parse_profile reaches parse_timeline unless an earlier step raised
ReachesTimeline(step) == step \notin {"navigation", "extraction"}

\* the results of the window that asyncio.gather returned as dicts: the task
\* whose page.close raised has an exception for its result
RECURSIVE BatchResults(_, _, _)
BatchResults(urls, fail, i) ==
    IF i > Len(urls) THEN <<>>
    ELSE IF StepOf(urls[i], fail) = "close"
         THEN BatchResults(urls, fail, i + 1)
         ELSE <<ProfileRecord(urls[i], StepOf(urls[i], fail))>>
              \o BatchResults(urls, fail, i + 1)

\* the calls of parse_timeline made by the window, with their do_deep_dive
BatchTimeline(urls, batch_num, fail) ==
    {[url          |-> urls[i],
      do_deep_dive |-> player_num(batch_num, i - 1) <= DEEP_TIMELINE_LIMIT] :
        i \in {j \in 1..Len(urls) : ReachesTimeline(StepOf(urls[j], fail))}}

\* context.new_page raises for a locator of the window
OpenRaises(urls, fail) == \E i \in 1..Len(urls) : StepOf(urls[i], fail) = "open"

\* "if len(batch_buffer) > 100"
BufferOverfull(buffer) == Len(buffer) > FLUSH_THRESHOLD

\* "if len(batch_buffer) >= 100"
BufferFull(buffer) == Len(buffer) >= FLUSH_THRESHOLD

ListingSizes == {0, 3, FLUSH_THRESHOLD + 1, 2 * FLUSH_THRESHOLD + 5,
                 DEEP_TIMELINE_LIMIT + MaxOver}

\* the output file an earlier run of the same day left behind
EarlierFile == <<HeaderRow, [kind |-> "record", url |-> 0, filled |-> "all"]>>

ExecInit ==
    /\ bpc = "start"
    /\ b_listing \in {[j \in 1..n |-> j] : n \in ListingSizes}
    /\ b_start_from \in 0..MaxResume
    /\ b_fail \in {NoFail} \cup [url : 1..MaxFailUrl, step : FailSteps]
    /\ b_player_urls = <<>>
    /\ b_i = 0
    /\ b_all_data = <<>>
    /\ b_batch_buffer = <<>>
    /\ b_sink = <<>>
    /\ b_timeline = {}
    /\ b_csv_exists \in BOOLEAN
    /\ b_csv_file = IF b_csv_exists THEN EarlierFile ELSE <<>>

\* scrape_year up to its loop: the empty listing, the resume offset
ExecStartYear ==
    /\ bpc = "start"
    /\ IF b_listing = <<>>
       THEN /\ b_player_urls' = <<>>
            /\ bpc' = "done"
       ELSE /\ b_player_urls' = (IF b_start_from > 0
                                 THEN DropFirst(b_listing, b_start_from)
                                 ELSE b_listing)
            /\ bpc' = "windows"
    /\ UNCHANGED <<b_listing, b_start_from, b_fail, b_i, b_all_data,
                   b_batch_buffer, b_sink, b_timeline, b_csv_exists, b_csv_file,
                   notExec>>

\* one iteration of the loop of scrape_year: scrape_player_batch on a window
\* of MAX_CONCURRENT locators, then the incremental save
ExecWindow ==
    /\ bpc = "windows"
    /\ b_i < Len(b_player_urls)
    /\ LET hi        == IF b_i + MAX_CONCURRENT < Len(b_player_urls)
                        THEN b_i + MAX_CONCURRENT ELSE Len(b_player_urls)
           batch     == SubSeq(b_player_urls, b_i + 1, hi)
           batch_num == b_i \div MAX_CONCURRENT
       IN  /\ ~OpenRaises(batch, b_fail)
           /\ LET batch_data == BatchResults(batch, b_fail, 1)
                  buffer     == b_batch_buffer \o batch_data
              IN  /\ b_all_data' = b_all_data \o batch_data
                  /\ b_timeline' = b_timeline
                                   \cup BatchTimeline(batch, batch_num, b_fail)
                  /\ IF BufferFull(buffer)
                     THEN /\ b_csv_file' = append_to_csv(b_csv_file, b_csv_exists,
                                                         buffer)
                          /\ b_csv_exists' = TRUE
                          /\ b_sink' = b_sink \o buffer
                          /\ b_batch_buffer' = <<>>
                     ELSE /\ b_batch_buffer' = buffer
                          /\ UNCHANGED <<b_sink, b_csv_exists, b_csv_file>>
    /\ b_i' = b_i + MAX_CONCURRENT
    /\ UNCHANGED <<bpc, b_listing, b_start_from, b_fail, b_player_urls, notExec>>

\* context.new_page raises: the exception leaves scrape_player_batch,
\* scrape_year and main, and the run ends without the final save
ExecWindowRaises ==
    /\ bpc = "windows"
    /\ b_i < Len(b_player_urls)
    /\ LET hi    == IF b_i + MAX_CONCURRENT < Len(b_player_urls)
                    THEN b_i + MAX_CONCURRENT ELSE Len(b_player_urls)
           batch == SubSeq(b_player_urls, b_i + 1, hi)
       IN  OpenRaises(batch, b_fail)
    /\ bpc' = "aborted"
    /\ UNCHANGED <<b_listing, b_start_from, b_fail, b_player_urls, b_i,
                   b_all_data, b_batch_buffer, b_sink, b_timeline, b_csv_exists,
                   b_csv_file, notExec>>

\* after the loop: "Save any remaining players in buffer"
ExecFinishYear ==
    /\ bpc = "windows"
    /\ b_i >= Len(b_player_urls)
    /\ IF b_batch_buffer # <<>>
       THEN /\ b_csv_file' = append_to_csv(b_csv_file, b_csv_exists, b_batch_buffer)
            /\ b_csv_exists' = TRUE
            /\ b_sink' = b_sink \o b_batch_buffer
       ELSE UNCHANGED <<b_sink, b_csv_exists, b_csv_file>>
    /\ bpc' = "done"
    /\ UNCHANGED <<b_listing, b_start_from, b_fail, b_player_urls, b_i,
                   b_all_data, b_batch_buffer, b_timeline, notExec>>

NextExec == ExecStartYear \/ ExecWindow \/ ExecWindowRaises \/ ExecFinishYear

\* the other components stay as constructed
ExecStart == ExecInit /\ ExecAlone

SpecExec == ExecStart /\ [][NextExec]_vars

\* C18: the entities whose timeline is read with the full-history scan enabled
\* are exactly those at the first DEEP_TIMELINE_LIMIT positions of the overall
\* sequence the listing crawl returned, whatever the resume offset
C18_BudgetByOverallPosition ==
    \A t \in b_timeline : t.do_deep_dive <=> (t.url <= DEEP_TIMELINE_LIMIT)

\* without a resume offset the budget goes to the first DEEP_TIMELINE_LIMIT
\* positions of the overall sequence
BudgetByPositionFromStart ==
    (b_start_from = 0) =>
        \A t \in b_timeline : t.do_deep_dive <=> (t.url <= DEEP_TIMELINE_LIMIT)

\* C19: whenever a window starts, fewer than FLUSH_THRESHOLD completed records
\* are not yet in the sink, and they are exactly the records of the buffer; a
\* run that is cut short loses no more than them; after the last window every
\* record has been appended
C19_BoundedLoss ==
    /\ (bpc \in {"windows", "aborted"}) =>
           /\ Len(b_batch_buffer) < FLUSH_THRESHOLD
           /\ b_all_data = b_sink \o b_batch_buffer
    /\ (bpc = "done") => b_sink = b_all_data

\* a save happened inside the loop and the buffer is filling again
C19_Witness ==
    /\ bpc = "windows"
    /\ Len(b_all_data) > FLUSH_THRESHOLD
    /\ Len(b_sink) >= FLUSH_THRESHOLD
    /\ b_batch_buffer # <<>>

\* C20: a run in which the processing of one entity fails is not cut short,
\* and ends with one record for every locator of player_urls, in order
C20_DegradationNotFailure ==
    /\ bpc # "aborted"
    /\ (bpc = "done") =>
           /\ Len(b_all_data) = Len(b_player_urls)
           /\ \A j \in 1..Len(b_all_data) : b_all_data[j].url = b_player_urls[j]

\* when the failure is raised and caught inside parse_profile, the entity
\* yields a record and the run ends with one record for every locator
DegradationInsideParseProfile ==
    (bpc = "done" /\ b_fail.step \in {"none", "navigation", "extraction"}) =>
        /\ Len(b_all_data) = Len(b_player_urls)
        /\ \A j \in 1..Len(b_all_data) :
               /\ b_all_data[j].url = b_player_urls[j]
               /\ (b_all_data[j].filled # "all") <=> (b_fail.url = b_player_urls[j])

(***************************************************************************)
(* SpecProfile: parse_profile of scraper.py and of patch_missing_ranks.py, *)
(* one action for each step of the function.  A heading is the set of the  *)
(* words the code tests it for ("JUCO", "COMPOSITE", "247SPORTS"); a       *)
(* ranking section carries its stars, its national rank and the            *)
(* InstitutionGroup of its national-rank link.                             *)
(***************************************************************************)

CSV_HEADERS ==
    {"247 ID", "Player Name", "Position", "Height", "Weight", "High School",
     "City, ST", "Class", "247 Stars", "247 Rating", "247 National Rank",
     "247 Position", "247 Position Rank", "Composite Stars", "Composite Rating",
     "Composite National Rank", "Composite Position", "Composite Position Rank",
     "Signed Date", "Signed Team", "Draft Date", "Draft Team", "Recruiting Year",
     "Profile URL", "Scrape Date", "Data Source"}

PROFILE_URL == "https://247sports.com/player/a-1"

MaxSections == 2

SEC_COMPOSITE ==
    [heading |-> {"247SPORTS", "COMPOSITE"}, stars |-> "4", rank |-> "12",
     group |-> "HighSchool"]
SEC_247 ==
    [heading |-> {"247SPORTS"}, stars |-> "5", rank |-> "15",
     group |-> "HighSchool"]
SEC_JUCO ==
    [heading |-> {"247SPORTS", "JUCO"}, stars |-> "3", rank |-> "7",
     group |-> "JuniorCollege"]
SEC_JUCO_COMPOSITE ==
    [heading |-> {"247SPORTS", "JUCO", "COMPOSITE"}, stars |-> "2", rank |-> "9",
     group |-> "JuniorCollege"]

Sections == {SEC_COMPOSITE, SEC_247, SEC_JUCO, SEC_JUCO_COMPOSITE}

SectionLists == UNION {[1..n -> Sections] : n \in 0..MaxSections}

Sites ==
    [category : {"hs", "junior-college"}, recruiting_link : BOOLEAN,
     hs_link : BOOLEAN, hs_view_hs_link : BOOLEAN, sections : SectionLists,
     signed : BOOLEAN, banner : BOOLEAN]

\* the view page.goto(url) shows
PrimaryView(pages) ==
    [category |-> pages.category, recruiting_link |-> pages.recruiting_link,
     hs_link |-> pages.hs_link, sections |-> pages.sections, banner |-> pages.banner]

\* the view behind the "Recruiting Profile" link
RecruitingView(pages) ==
    [category |-> pages.category, recruiting_link |-> FALSE,
     hs_link |-> pages.hs_link, sections |-> pages.sections, banner |-> pages.banner]

\* the view behind the "(HS)" link: the high-school profile
HsView(pages) ==
    [category |-> "hs", recruiting_link |-> FALSE,
     hs_link |-> pages.hs_view_hs_link, sections |-> <<SEC_COMPOSITE, SEC_247>>,
     banner |-> pages.banner]

\* data as parse_profile builds it before its try statement
InitialWrites(which) ==
    IF which = "scraper"
    THEN << <<"Profile URL", PROFILE_URL>>, <<"Recruiting Year", "2020">>,
            <<"Scrape Date", "now">>, <<"Data Source", "247Sports Composite">>,
            <<"_date_priority", -1>> >>
    ELSE << <<"Profile URL", PROFILE_URL>>, <<"Recruiting Year", "2020">>,
            <<"Scrape Date", "now">>,
            <<"Data Source", "247Sports Composite (patch)">>,
            <<"Class", "2020">> >>

RECURSIVE Assign(_, _, _)
Assign(d, writes, i) ==
    IF i > Len(writes) THEN d
    ELSE Assign([k \in DOMAIN d \cup {writes[i][1]} |->
                    IF k = writes[i][1] THEN writes[i][2] ELSE d[k]],
                writes, i + 1)

AllSentinels == [header \in CSV_HEADERS |-> "NA"]

InitialData(which) == Assign(AllSentinels, InitialWrites(which), 1)

\* "except Exception as e: ... return {header: 'NA' for header in CSV_HEADERS}"
ReturnSentinels(d) == AllSentinels

\* "except Exception as e: ... return data"
ExceptReturn(d) == d

\* a result of the window as it stands after gather
KeepAccumulator(r) == r

\* "if '_date_priority' in result: del result['_date_priority']"
WithoutAccumulator(r) ==
    [k \in DOMAIN r \ {"_date_priority"} |-> r[k]]

\* the hs step of scraper.py follows the first link whose text has "(HS)";
\* the one of patch_missing_ranks.py looks for the link on a junior-college
\* or college URL, or on a page with 247SportsJUCO and no high-school rank link
LooksForHsLink(which, view) ==
    IF which = "scraper" THEN TRUE
    ELSE \/ view.category # "hs"
         \/ /\ \E i \in 1..Len(view.sections) : "JUCO" \in view.sections[i].heading
            /\ ~\E i \in 1..Len(view.sections) : view.sections[i].group = "HighSchool"

\* the prefix of the fields a ranking section writes, "" when it writes none
SectionPrefix(which, heading) ==
    IF which = "scraper" /\ "JUCO" \in heading THEN ""
    ELSE IF "COMPOSITE" \in heading THEN "Composite"
    ELSE IF "247SPORTS" \in heading /\ "COMPOSITE" \notin heading THEN "247"
    ELSE ""

\* the assignments one ranking section makes
SectionWrites(which, section) ==
    LET prefix == SectionPrefix(which, section.heading)
    IN  IF prefix = "" THEN <<>>
        ELSE << <<prefix \o " Stars", section.stars>> >>
             \o (IF section.group = "HighSchool"
                 THEN << <<prefix \o " National Rank", section.rank>> >>
                 ELSE <<>>)

\* every step of the try statement
EveryStep == {"goto", "recruiting", "hs", "content", "id", "name", "class",
              "rankings", "banner", "diagnostic"}

\* the steps of the try statement that raise into its except clause: the two
\* fallbacks keep their exceptions to themselves
RaisingSteps == {"goto", "content", "id", "name", "class", "rankings",
                 "banner", "diagnostic"}

ProfileInit ==
    /\ fpc = "goto"
    /\ parser \in {"scraper", "patch"}
    /\ f_site \in Sites
    /\ f_view = <<>>
    /\ f_soup = <<>>
    /\ f_data = InitialData(parser)
    /\ f_si = 1
    /\ f_nav = <<>>
    /\ f_written = InitialWrites(parser)
    /\ f_failed_at = "none"
    /\ f_result = <<>>
    /\ f_task = [kind |-> "none", dict |-> <<>>]
    /\ f_valid = <<>>

\* data[...] = ... for each of the writes, and the next step
ProfileStep(writes, next) ==
    /\ f_data' = Assign(f_data, writes, 1)
    /\ f_written' = f_written \o writes
    /\ fpc' = next

\* "await page.goto(url, ...)"
ProfileGoto ==
    /\ fpc = "goto"
    /\ f_view' = PrimaryView(f_site)
    /\ f_nav' = Append(f_nav, "primary")
    /\ fpc' = "recruiting"
    /\ UNCHANGED <<parser, f_site, f_soup, f_data, f_si, f_written, f_failed_at,
                   f_result, f_task, f_valid, notProfile>>

\* navigate_to_recruiting_profile: the link is clicked when there is one
ProfileRecruiting ==
    /\ fpc = "recruiting"
    /\ IF f_view.recruiting_link
       THEN /\ f_view' = RecruitingView(f_site)
            /\ f_nav' = Append(f_nav, "recruiting")
       ELSE UNCHANGED <<f_view, f_nav>>
    /\ fpc' = "hs"
    /\ UNCHANGED <<parser, f_site, f_soup, f_data, f_si, f_written, f_failed_at,
                   f_result, f_task, f_valid, notProfile>>

\* the click on the recruiting link, or the wait after it, raises:
\* "except: return False" / "pass"
ProfileRecruitingFails ==
    /\ fpc = "recruiting"
    /\ f_view.recruiting_link
    /\ f_view' \in {f_view, RecruitingView(f_site)}
    /\ f_nav' = Append(f_nav, "recruiting")
    /\ fpc' = "hs"
    /\ UNCHANGED <<parser, f_site, f_soup, f_data, f_si, f_written,
                   f_failed_at, f_result, f_task, f_valid, notProfile>>

\* navigate_to_hs_profile / the "(HS)" block of the patch
ProfileHs ==
    /\ fpc = "hs"
    /\ IF LooksForHsLink(parser, f_view) /\ f_view.hs_link
       THEN /\ f_view' = HsView(f_site)
            /\ f_nav' = Append(f_nav, "hs")
       ELSE UNCHANGED <<f_view, f_nav>>
    /\ fpc' = "content"
    /\ UNCHANGED <<parser, f_site, f_soup, f_data, f_si, f_written, f_failed_at,
                   f_result, f_task, f_valid, notProfile>>

\* the navigation to the "(HS)" link raises, before or after the view
\* changed: "except: return False" / "pass"
ProfileHsFails ==
    /\ fpc = "hs"
    /\ LooksForHsLink(parser, f_view) /\ f_view.hs_link
    /\ f_view' \in {f_view, HsView(f_site)}
    /\ f_nav' = Append(f_nav, "hs")
    /\ fpc' = "content"
    /\ UNCHANGED <<parser, f_site, f_soup, f_data, f_si, f_written,
                   f_failed_at, f_result, f_task, f_valid, notProfile>>

\* "html = await page.content(); soup = BeautifulSoup(html, 'html.parser')"
ProfileContent ==
    /\ fpc = "content"
    /\ f_soup' = f_view
    /\ fpc' = "id"
    /\ UNCHANGED <<parser, f_site, f_view, f_data, f_si, f_nav, f_written,
                   f_failed_at, f_result, f_task, f_valid, notProfile>>

\* "data['247 ID'] = extract_player_id(url)"
ProfileId ==
    /\ fpc = "id"
    /\ ProfileStep(<< <<"247 ID", "1">> >>, "name")
    /\ UNCHANGED <<parser, f_site, f_view, f_soup, f_si, f_nav, f_failed_at,
                   f_result, f_task, f_valid, notProfile>>

\* the header information
ProfileName ==
    /\ fpc = "name"
    /\ ProfileStep(<< <<"Player Name", "A">> >>,
                   IF parser = "scraper" THEN "class" ELSE "rankings")
    /\ UNCHANGED <<parser, f_site, f_view, f_soup, f_si, f_nav, f_failed_at,
                   f_result, f_task, f_valid, notProfile>>

\* "data['Class'] = str(year)" of scraper.py
ProfileClass ==
    /\ fpc = "class"
    /\ ProfileStep(<< <<"Class", "2020">> >>, "rankings")
    /\ UNCHANGED <<parser, f_site, f_view, f_soup, f_si, f_nav, f_failed_at,
                   f_result, f_task, f_valid, notProfile>>

\* one iteration of "for section in ranking_sections"
ProfileSection ==
    /\ fpc = "rankings"
    /\ f_si <= Len(f_soup.sections)
    /\ ProfileStep(SectionWrites(parser, f_soup.sections[f_si]), "rankings")
    /\ f_si' = f_si + 1
    /\ UNCHANGED <<parser, f_site, f_view, f_soup, f_nav, f_failed_at, f_result,
                   f_task, f_valid, notProfile>>

\* the end of the loop over the ranking sections
ProfileSectionsDone ==
    /\ fpc = "rankings"
    /\ f_si > Len(f_soup.sections)
    /\ fpc' = IF parser = "scraper" THEN "timeline" ELSE "banner"
    /\ UNCHANGED <<parser, f_site, f_view, f_soup, f_data, f_si, f_nav, f_written,
                   f_failed_at, f_result, f_task, f_valid, notProfile>>

\* "await parse_timeline(page, data, year, do_deep_dive)" of scraper.py, which
\* raises nothing
ProfileTimeline ==
    /\ fpc = "timeline"
    /\ ProfileStep(IF f_site.signed
                   THEN << <<"Signed Date", "01/15/2020">>,
                           <<"_date_priority", 100>>,
                           <<"Signed Team", "Alabama">> >>
                   ELSE <<>>, "banner")
    /\ UNCHANGED <<parser, f_site, f_view, f_soup, f_si, f_nav, f_failed_at,
                   f_result, f_task, f_valid, notProfile>>

\* the fallback for Signed Team
ProfileBanner ==
    /\ fpc = "banner"
    /\ ProfileStep(IF f_data["Signed Team"] = "NA" /\ f_soup.banner
                   THEN << <<"Signed Team", "Auburn">> >>
                   ELSE <<>>,
                   IF parser = "scraper" THEN "return" ELSE "diagnostic")
    /\ UNCHANGED <<parser, f_site, f_view, f_soup, f_si, f_nav, f_failed_at,
                   f_result, f_task, f_valid, notProfile>>

\* the diagnostic HTML the patch saves when no rank was parsed
ProfileDiagnostic ==
    /\ fpc = "diagnostic"
    /\ fpc' = "return"
    /\ UNCHANGED <<parser, f_site, f_view, f_soup, f_data, f_si, f_nav, f_written,
                   f_failed_at, f_result, f_task, f_valid, notProfile>>

\* "return data"
ProfileReturn ==
    /\ fpc = "return"
    /\ f_result' = f_data
    /\ fpc' = "returned"
    /\ UNCHANGED <<parser, f_site, f_view, f_soup, f_data, f_si, f_nav, f_written,
                   f_failed_at, f_task, f_valid, notProfile>>

\* a step of the try statement raises: "except Exception as e: ... return data"
ProfileRaises ==
    /\ fpc \in RaisingSteps
    /\ f_failed_at' = fpc
    /\ f_result' = ExceptReturn(f_data)
    /\ fpc' = "returned"
    /\ UNCHANGED <<parser, f_site, f_view, f_soup, f_data, f_si, f_nav, f_written,
                   f_task, f_valid, notProfile>>

\* scrape_player: parse_profile returned and the page is closed
PlayerReturns ==
    /\ fpc = "returned"
    /\ parser = "scraper"
    /\ f_task' = [kind |-> "dict", dict |-> f_result]
    /\ fpc' = "task"
    /\ UNCHANGED <<parser, f_site, f_view, f_soup, f_data, f_si, f_nav, f_written,
                   f_failed_at, f_result, f_valid, notProfile>>

\* scrape_player: a statement of its try raises,
\* "except Exception as e: ... return {header: 'NA' for header in CSV_HEADERS}"
PlayerExcept ==
    /\ fpc = "returned"
    /\ parser = "scraper"
    /\ f_task' = [kind |-> "dict", dict |-> ReturnSentinels(f_result)]
    /\ fpc' = "task"
    /\ UNCHANGED <<parser, f_site, f_view, f_soup, f_data, f_si, f_nav, f_written,
                   f_failed_at, f_result, f_valid, notProfile>>

\* scrape_player: "finally: await page.close()" raises
PlayerCloseRaises ==
    /\ fpc = "returned"
    /\ parser = "scraper"
    /\ f_task' = [kind |-> "exception", dict |-> <<>>]
    /\ fpc' = "task"
    /\ UNCHANGED <<parser, f_site, f_view, f_soup, f_data, f_si, f_nav, f_written,
                   f_failed_at, f_result, f_valid, notProfile>>

\* scrape_player_batch: "if isinstance(result, dict)" on the result of the task
BatchKeeps ==
    /\ fpc = "task"
    /\ f_valid' = IF f_task.kind = "dict"
                  THEN <<WithoutAccumulator(f_task.dict)>> ELSE <<>>
    /\ fpc' = "gathered"
    /\ UNCHANGED <<parser, f_site, f_view, f_soup, f_data, f_si, f_nav, f_written,
                   f_failed_at, f_result, f_task, notProfile>>

NextProfile ==
    \/ ProfileGoto \/ ProfileRecruiting \/ ProfileRecruitingFails
    \/ ProfileHs \/ ProfileHsFails \/ ProfileContent \/ ProfileId
    \/ ProfileName \/ ProfileClass \/ ProfileSection \/ ProfileSectionsDone
    \/ ProfileTimeline \/ ProfileBanner \/ ProfileDiagnostic \/ ProfileReturn
    \/ ProfileRaises
    \/ PlayerReturns \/ PlayerExcept \/ PlayerCloseRaises \/ BatchKeeps

\* the other components stay as constructed
ProfileStart == ProfileInit /\ ProfileAlone

SpecProfile == ProfileStart /\ [][NextProfile]_vars

\* the value last assigned to a field, the sentinel when none was
RECURSIVE LastWritten(_, _, _)
LastWritten(writes, field, i) ==
    IF i = 0 THEN "NA"
    ELSE IF writes[i][1] = field THEN writes[i][2]
    ELSE LastWritten(writes, field, i - 1)

RunMetadata == {"Profile URL", "Recruiting Year", "Scrape Date", "Data Source"}

\* C21: whatever step of parse_profile of scraper.py fails, the caller gets a
\* record: each field holds the value last assigned before the failure, or the
\* sentinel when none was; Profile URL is the locator; a failure of the first
\* fetch leaves the sentinel everywhere but in the locator and run metadata
C21_GracefulDegradation ==
    (fpc = "returned" /\ parser = "scraper") =>
        /\ CSV_HEADERS \subseteq DOMAIN f_result
        /\ \A h \in CSV_HEADERS :
               f_result[h] = LastWritten(f_written, h, Len(f_written))
        /\ f_result["Profile URL"] = PROFILE_URL
        /\ (f_failed_at = "goto") =>
               /\ \A h \in CSV_HEADERS \ RunMetadata : f_result[h] = "NA"
               /\ \A h \in RunMetadata : f_result[h] # "NA"

\* a ranking section raised after an earlier one was read, on a profile whose
\* timeline would have given the team
C21_Witness ==
    /\ fpc = "returned"
    /\ parser = "scraper"
    /\ f_failed_at = "rankings"
    /\ f_result["247 ID"] = "1"
    /\ f_result["Composite Stars"] = "4"
    /\ f_site.signed
    /\ f_result["Signed Team"] = "NA"

\* the navigations of f_nav from position i on are among those of order, in
\* the order of order, each at most once
RECURSIVE InOrder(_, _, _)
InOrder(nav, i, order) ==
    IF i > Len(nav) THEN TRUE
    ELSE IF order = <<>> THEN FALSE
    ELSE IF nav[i] = Head(order) THEN InOrder(nav, i + 1, Tail(order))
    ELSE InOrder(nav, i, Tail(order))

\* the navigations begin with the primary fetch, then the recruiting profile
\* at most once, then the high-school profile at most once; no fallback has
\* raised into the except clause of parse_profile
FallbacksInOrder ==
    (fpc # "idle") =>
        /\ (f_nav # <<>>) => f_nav[1] = "primary"
        /\ InOrder(f_nav, 1, <<"primary", "recruiting", "hs">>)
        /\ f_failed_at \notin {"recruiting", "hs"}

\* a fallback step, whatever it finds, is followed by the next step of
\* parse_profile with data as it was
FallbacksProceed ==
    /\ (fpc = "recruiting") => (fpc' = "hs" /\ f_data' = f_data)
    /\ (fpc = "hs") => (fpc' = "content" /\ f_data' = f_data)

\* C22: in both programs parse_profile tries the recruiting-profile fallback
\* at most once and the high-school fallback at most once, in that order and
\* after the primary fetch; a fallback that fails or finds no link is followed
\* by the extraction and never ends the entity in the except clause
C22_NavigationFallbacks == []FallbacksInOrder /\ [][FallbacksProceed]_vars

\* both fallbacks were tried and the second one failed: the extraction went on
\* on the junior-college view and returned the name
C22_Witness ==
    /\ fpc = "returned"
    /\ f_failed_at = "none"
    /\ f_nav = <<"primary", "recruiting", "hs">>
    /\ f_view.category = "junior-college"
    /\ f_result["Player Name"] = "A"

\* the ranking section in turn has a heading with "JUCO" in it
JucoSectionInTurn ==
    /\ fpc = "rankings"
    /\ f_si <= Len(f_soup.sections)
    /\ "JUCO" \in f_soup.sections[f_si].heading

\* C23: in both programs, reading a ranking section whose heading has "JUCO"
\* in it leaves every field of the record as it was
C23_JucoSectionsWriteNothing ==
    [][JucoSectionInTurn => \A h \in CSV_HEADERS : f_data'[h] = f_data[h]]_vars

\* parse_profile of scraper.py leaves the record as it was on such a section
ScraperSkipsJucoSections ==
    [][(JucoSectionInTurn /\ parser = "scraper") =>
           \A h \in CSV_HEADERS : f_data'[h] = f_data[h]]_vars

\* Draft Date and Draft Team as the draft logic gives them on the items of
\* scanned that are of one of the tiers
RECURSIVE DraftOf(_, _, _)
DraftOf(items, tiers, i) ==
    IF i = 0 THEN [draft_date |-> NA_DATE, draft_team |-> "NA"]
    ELSE IF items[i].tier \in tiers
         THEN DraftAfter(DraftOf(items, tiers, i - 1), items[i].item)
         ELSE DraftOf(items, tiers, i - 1)

\* C24: Draft Date and Draft Team are those of the draft events of the summary
\* timeline and of the full-history pages alike
C24_DeepTierScansDraft ==
    (tpc # "idle") =>
        draft_data = DraftOf(scanned, {"summary", "deep"}, Len(scanned))

\* Draft Date and Draft Team are those of the draft events of the summary
\* timeline
DraftFromSummaryOnly ==
    (tpc # "idle") => draft_data = DraftOf(scanned, {"summary"}, Len(scanned))

\* C25: parse_timeline scans the items of at most MAX_PAGES pages of the full
\* history: while it is in the full history the page in turn is one of the
\* first MAX_PAGES, and it never clicks "next" more than MAX_PAGES times
C25_BoundedPagination ==
    /\ page_count <= MAX_PAGES
    /\ (tpc = "deep") => page_count + 1 <= MAX_PAGES

\* the "next" link never disappeared: ten pages were scanned and the function
\* returned
C25_Witness ==
    /\ tpc = "done"
    /\ page_count = MAX_PAGES
    /\ scanned # <<>>
    /\ scanned[Len(scanned)].tier = "deep"

\* C26: every record of valid_results, which scrape_year passes to
\* append_to_csv, has the keys of CSV_HEADERS and no other: _date_priority is
\* gone whether parse_profile returned normally, returned from its except
\* clause, or scrape_player returned from its own
C26_FixedSchema ==
    \A j \in 1..Len(f_valid) : DOMAIN f_valid[j] = CSV_HEADERS

\* a record reached valid_results after parse_profile returned from its except
\* clause with the accumulator in it
C26_Witness ==
    /\ fpc = "gathered"
    /\ f_failed_at # "none"
    /\ "_date_priority" \in DOMAIN f_task.dict
    /\ Len(f_valid) = 1
    /\ f_valid[1]["Profile URL"] = PROFILE_URL

\* C27: after any number of calls of append_to_csv in a run, the output file
\* has the header row once, as its first row, and after it (and after the
\* records an earlier run left, if any) the records of all the calls in call
\* order
C27_RepeatedAppends ==
    /\ (~b_csv_exists) => (b_csv_file = <<>> /\ b_sink = <<>>)
    /\ b_csv_exists =>
           \E earlier \in {<<>>, Tail(EarlierFile)} :
               b_csv_file = <<HeaderRow>> \o earlier \o b_sink

\* the file was created by this run and has been appended to three times
C27_Witness ==
    /\ bpc = "done"
    /\ Len(b_sink) > 2 * FLUSH_THRESHOLD
    /\ Len(b_csv_file) = Len(b_sink) + 1
    /\ b_batch_buffer # <<>>

\* C28: every profile the patch run fetched, in the composite pass or in the
\* 247-only pass, has an entry of diagnostics with its URL and with whether a
\* ranking value was found
C28_DiagnosticsComplete ==
    \A i \in 1..Len(all_patched) :
        \E key \in DOMAIN diagnostics :
            /\ diagnostics[key].url = all_patched[i].url
            /\ diagnostics[key].success =
                   (all_patched[i].r247 # S_NA \/ all_patched[i].rcomp # S_NA)

\* in the composite pass the profile fetched last has its entry
LastCompositeFetchHasEntry ==
    (ppc = "scrape" /\ p_i > 1) =>
        \E key \in DOMAIN diagnostics :
            /\ diagnostics[key].url = target_players[p_i - 1].url
            /\ diagnostics[key].expected_composite_rank =
                   target_players[p_i - 1].missing_composite_rank

(***************************************************************************)
(* SpecCoverage: the end of click_load_more_until_complete, from the       *)
(* deduplicated list to the return.  The locators are named by their       *)
(* position in the list.  The code computes the percentage in floating     *)
(* point, len(player_urls) / expected_total * 100; for the totals of the   *)
(* model its comparisons with 95 and 80 agree with the exact ones.         *)
(***************************************************************************)

MaxExpected == 20
MaxFound == 21

\* "if coverage > 95: ... elif coverage > 80: ... else: ..."
CoverageClassStrict(found, expected) ==
    IF found * 100 > 95 * expected THEN "full"
    ELSE IF found * 100 > 80 * expected THEN "degraded"
    ELSE "severe"

\* "if coverage >= 95: ... elif coverage >= 80: ... else: ..."
CoverageClass(found, expected) ==
    IF found * 100 >= 95 * expected THEN "full"
    ELSE IF found * 100 >= 80 * expected THEN "degraded"
    ELSE "severe"

FoundCounts == (0..MaxFound) \cup {TEST_MODE_LIMIT, TEST_MODE_LIMIT + 1}

CoverageInit ==
    /\ vpc = "extracted"
    /\ v_test_mode \in BOOLEAN
    /\ expected_total \in 0..MaxExpected
    /\ v_player_urls \in {[j \in 1..n |-> j] : n \in FoundCounts}
    /\ v_coverage = "none"
    /\ v_returned = <<>>

\* "if expected_total and not TEST_MODE:"
ValidateCoverage ==
    /\ vpc = "extracted"
    /\ v_coverage' = IF expected_total # 0 /\ ~v_test_mode
                     THEN CoverageClass(Len(v_player_urls), expected_total)
                     ELSE "none"
    /\ vpc' = "validated"
    /\ UNCHANGED <<v_test_mode, expected_total, v_player_urls, v_returned,
                   notCoverage>>

\* "if TEST_MODE and len(player_urls) > 300: player_urls = player_urls[:300]",
\* "return player_urls"
ReturnUrls ==
    /\ vpc = "validated"
    /\ v_returned' = IF v_test_mode /\ Len(v_player_urls) > TEST_MODE_LIMIT
                     THEN SubSeq(v_player_urls, 1, TEST_MODE_LIMIT)
                     ELSE v_player_urls
    /\ vpc' = "returned"
    /\ UNCHANGED <<v_test_mode, expected_total, v_player_urls, v_coverage,
                   notCoverage>>

NextCoverage == ValidateCoverage \/ ReturnUrls

\* the other components stay as constructed
CoverageStart == CoverageInit /\ CoverageAlone

SpecCoverage == CoverageStart /\ [][NextCoverage]_vars

\* the class of D locators found out of E expected: full from 19/20 on,
\* degraded from 4/5 on, severe below
ClassOf(D, E) ==
    IF 20 * D >= 19 * E THEN "full"
    ELSE IF 5 * D >= 4 * E THEN "degraded"
    ELSE "severe"

\* the list the function returns when the check is left out
WithoutCheck ==
    IF v_test_mode /\ Len(v_player_urls) > TEST_MODE_LIMIT
    THEN SubSeq(v_player_urls, 1, TEST_MODE_LIMIT)
    ELSE v_player_urls

MaxYears == 2
MaxTargets == 2
MaxMissing == 2
MaxWaited == 4000

\* await page.wait_for_timeout(3000), of both list loads
LIST_WAIT == 3000
\* await asyncio.sleep(1), after each fetch of both passes
POLITE_DELAY == 1

\* a wait of ms milliseconds, added to the time waited so far
Wait(w, ms) == IF w + ms > MaxWaited THEN MaxWaited ELSE w + ms

\* the fetch is followed by no sleep
AfterFetchAtOnce(w) == w

\* await asyncio.sleep(1), after the fetch returned and its page was closed
AfterFetch(w) == Wait(w, POLITE_DELAY * 1000)

RepairInit ==
    /\ gpc = "year"
    /\ g_years \in 1..MaxYears
    /\ g_targets = 0
    /\ g_missing = 0
    /\ in_flight = 0
    /\ fetches = 0
    /\ waited = 0
    /\ gap = -1
    /\ fetched_in = {}

\* get_players_from_list loaded the list (goto, wait_for_timeout(3000)) and
\* returned a map; the target players of the year are identified
LoadYearList ==
    /\ gpc = "year"
    /\ g_years > 0
    /\ g_years' = g_years - 1
    /\ waited' = Wait(waited, LIST_WAIT)
    /\ g_targets' \in 0..MaxTargets
    /\ gpc' = "composite"
    /\ UNCHANGED <<g_missing, in_flight, fetches, gap, fetched_in, notRepair>>

\* get_players_from_list returned {}: the year is skipped (continue)
YearListFails ==
    /\ gpc = "year"
    /\ g_years > 0
    /\ g_years' = g_years - 1
    /\ UNCHANGED <<gpc, g_targets, g_missing, in_flight, fetches, waited, gap, fetched_in,
                   notRepair>>

\* the loop over years_to_fix is over
RepairEnds ==
    /\ gpc = "year"
    /\ g_years = 0
    /\ gpc' = "done"
    /\ UNCHANGED <<g_years, g_targets, g_missing, in_flight, fetches, waited, gap,
                   fetched_in, notRepair>>

\* a call of parse_profile begins in the given pass
BeginFetch(pass, next) ==
    /\ in_flight' = in_flight + 1
    /\ gap' = IF fetches = 0 THEN -1 ELSE waited
    /\ fetched_in' = fetched_in \cup {pass}
    /\ gpc' = next

\* the call returns
EndFetch(next) ==
    /\ in_flight' = in_flight - 1
    /\ fetches' = fetches + 1
    /\ waited' = 0
    /\ gpc' = next

\* page = await context.new_page(); page.route(...); parse_profile is awaited
StartCompositeFetch ==
    /\ gpc = "composite"
    /\ g_targets > 0
    /\ BeginFetch("composite", "fetch_composite")
    /\ UNCHANGED <<g_years, g_targets, g_missing, fetches, waited, notRepair>>

\* data = await parse_profile(page, url, year)
EndCompositeFetch ==
    /\ gpc = "fetch_composite"
    /\ EndFetch("fetched_composite")
    /\ UNCHANGED <<g_years, g_targets, g_missing, gap, fetched_in, notRepair>>

\* page.close(), the report, the diagnostics entry and asyncio.sleep(1)
CompositeDelay ==
    /\ gpc = "fetched_composite"
    /\ waited' = AfterFetch(waited)
    /\ g_targets' = g_targets - 1
    /\ gpc' = "composite"
    /\ UNCHANGED <<g_years, g_missing, in_flight, fetches, gap, fetched_in, notRepair>>

\* new_page, route or close raises: nothing of main catches it, the run ends
CompositeRaises ==
    /\ \/ gpc = "composite" /\ g_targets > 0
       \/ gpc = "fetched_composite"
    /\ gpc' = "aborted"
    /\ UNCHANGED <<g_years, g_targets, g_missing, in_flight, fetches, waited, gap,
                   fetched_in, notRepair>>

\* the loop over target_players is over; missing_247_not_covered is computed
CompositeDone ==
    /\ gpc = "composite"
    /\ g_targets = 0
    /\ g_missing' \in 0..MaxMissing
    /\ gpc' = IF g_missing' > 0 THEN "load247" ELSE "year"
    /\ UNCHANGED <<g_years, g_targets, in_flight, fetches, waited, gap, fetched_in,
                   notRepair>>

\* page247.goto, wait_for_timeout(3000), the Load More clicks, r247_map
Load247Only ==
    /\ gpc = "load247"
    /\ waited' = Wait(waited, LIST_WAIT)
    /\ gpc' = "lookup247"
    /\ UNCHANGED <<g_years, g_targets, g_missing, in_flight, fetches, gap, fetched_in,
                   notRepair>>

\* except Exception: "Failed to load 247-only list"; the loop of the pass is
\* inside the try, so a raise of goto, new_page, route or close ends the pass
Pass247Raises ==
    /\ \/ gpc = "load247"
       \/ gpc = "lookup247" /\ g_missing > 0
       \/ gpc = "fetched_247"
    /\ g_missing' = 0
    /\ gpc' = "year"
    /\ UNCHANGED <<g_years, g_targets, in_flight, fetches, waited, gap, fetched_in,
                   notRepair>>

\* the rank is not on the 247-only list, or its player was fetched already
Skip247Lookup ==
    /\ gpc = "lookup247"
    /\ g_missing > 0
    /\ g_missing' = g_missing - 1
    /\ UNCHANGED <<gpc, g_years, g_targets, in_flight, fetches, waited, gap, fetched_in,
                   notRepair>>

\* pg = await context247.new_page(); pg.route(...); parse_profile is awaited
Start247Fetch ==
    /\ gpc = "lookup247"
    /\ g_missing > 0
    /\ BeginFetch("247", "fetch_247")
    /\ UNCHANGED <<g_years, g_targets, g_missing, fetches, waited, notRepair>>

\* data = await parse_profile(pg, player['url'], year)
End247Fetch ==
    /\ gpc = "fetch_247"
    /\ EndFetch("fetched_247")
    /\ UNCHANGED <<g_years, g_targets, g_missing, gap, fetched_in, notRepair>>

\* pg.close(), the report and asyncio.sleep(1)
Delay247 ==
    /\ gpc = "fetched_247"
    /\ waited' = AfterFetch(waited)
    /\ g_missing' = g_missing - 1
    /\ gpc' = "lookup247"
    /\ UNCHANGED <<g_years, g_targets, in_flight, fetches, gap, fetched_in, notRepair>>

\* the loop over missing_247_not_covered is over
Pass247Done ==
    /\ gpc = "lookup247"
    /\ g_missing = 0
    /\ gpc' = "year"
    /\ UNCHANGED <<g_years, g_targets, g_missing, in_flight, fetches, waited, gap,
                   fetched_in, notRepair>>

NextRepair ==
    \/ LoadYearList \/ YearListFails \/ RepairEnds
    \/ StartCompositeFetch \/ EndCompositeFetch \/ CompositeDelay \/ CompositeRaises
    \/ CompositeDone \/ Load247Only \/ Pass247Raises \/ Skip247Lookup
    \/ Start247Fetch \/ End247Fetch \/ Delay247 \/ Pass247Done

\* the other components stay as constructed
RepairStart == RepairInit /\ RepairAlone

SpecRepair == RepairStart /\ [][NextRepair]_vars

\* a call of parse_profile is in flight
Fetching == gpc \in {"fetch_composite", "fetch_247"}

\* C30: in the patch run at most one parse_profile is in flight at any time,
\* and every call but the first begins at least one second of waiting after
\* the call before it returned, in the composite pass and in the 247-only pass.
C30_PoliteSequentialFetches ==
    /\ in_flight <= 1
    /\ in_flight = (IF Fetching THEN 1 ELSE 0)
    /\ (Fetching /\ gap # -1) => gap >= POLITE_DELAY * 1000

\* a fetch of the 247-only pass is in flight exactly one second after the
\* fetch before it returned, in a run that fetched in the composite pass too
C30_Witness ==
    /\ gpc = "fetch_247"
    /\ fetched_in = {"composite", "247"}
    /\ fetches >= 2
    /\ gap = POLITE_DELAY * 1000


\* the hs step navigates: the "(HS)" link of the current view is followed
FollowsHsLink == fpc = "hs" /\ f_nav' = Append(f_nav, "hs")

\* C31: in both profile parsers the link to the high-school profile is
\* followed only from a view of a non-high-school category; from the
\* high-school profile no second navigation is made.
C31_HsLinkOnlyFromOtherCategory ==
    [][FollowsHsLink => f_view.category # "hs"]_vars

\* the parser of patch_missing_ranks.py follows the link from a high-school
\* URL only when the page shows JUCO rankings and no high-school ranking
PatchFollowsHsLinkOnCondition ==
    [][(FollowsHsLink /\ parser = "patch") =>
          \/ f_view.category # "hs"
          \/ /\ \E i \in 1..Len(f_view.sections) : "JUCO" \in f_view.sections[i].heading
             /\ \A i \in 1..Len(f_view.sections) :
                    f_view.sections[i].group # "HighSchool"]_vars


\* ---------------------------------------------------------------------------
\* scraper.py: scrape_year, scrape_player_batch and scrape_player, with the
\* tasks of a window as separate processes.  A record is the listing
\* position of its player, counted from 1.
\* ---------------------------------------------------------------------------

\* the listings: one player, two windows, and enough for a save before the end
PoolSizes == {1, MAX_CONCURRENT + 1, FLUSH_THRESHOLD + MAX_CONCURRENT}

\* the positions whose page.close() may raise in the finally of scrape_player,
\* and before whose page context.new_page() may raise
DropPositions == {2, 3}

\* batch_num of the window of position q
WindowOf(q) == (q - 1) \div MAX_CONCURRENT

\* batch = player_urls[i:i + MAX_CONCURRENT], as positions
BatchOf(i, n) ==
    (i + 1)..(IF i + MAX_CONCURRENT < n THEN i + MAX_CONCURRENT ELSE n)

Ended(states, q) == states[q] \in {"returned", "raised"}

\* a gather that returns as soon as one task ended
GatherDoneFirst(states, batch) == \E q \in batch : Ended(states, q)

\* "results = await asyncio.gather(*tasks, return_exceptions=True)" returns
\* when every task has ended
GatherDone(states, batch) == \A q \in batch : Ended(states, q)

\* results in the order the tasks ended
ResultsAsCompleted(i, n, order) == order

\* results of gather: in the order of tasks, whatever the order they ended in
Results(i, n, order) ==
    [k \in 1..Cardinality(BatchOf(i, n)) |-> i + k]

PoolInit ==
    /\ wpc = "window"
    /\ w_total \in PoolSizes
    /\ w_i = 0
    /\ w_state = [q \in 1..w_total |-> "queued"]
    /\ w_pages = {}
    /\ w_contexts = {}
    /\ w_order = <<>>
    /\ w_all_data = <<>>
    /\ w_buffer = <<>>
    /\ w_sink = <<>>
    /\ w_appends = 0

\* the next iteration of scrape_year calls scrape_player_batch:
\* "context = await browser.new_context(...)"
OpenContext ==
    /\ wpc = "window"
    /\ w_i < w_total
    /\ w_contexts' = w_contexts \cup {w_i \div MAX_CONCURRENT}
    /\ w_order' = <<>>
    /\ wpc' = "pages"
    /\ UNCHANGED <<w_total, w_i, w_state, w_pages, w_all_data, w_buffer, w_sink,
                   w_appends, notPool>>

\* the next position of the window without a task
NextQueued == CHOOSE q \in BatchOf(w_i, w_total) :
                  /\ w_state[q] = "queued"
                  /\ \A r \in BatchOf(w_i, w_total) : r < q => w_state[r] # "queued"

AllCreated == \A q \in BatchOf(w_i, w_total) : w_state[q] # "queued"

\* "page = await context.new_page(); tasks.append(scrape_player(page, ...))"
NewPage ==
    /\ wpc = "pages"
    /\ ~AllCreated
    /\ w_state' = [w_state EXCEPT ![NextQueued] = "created"]
    /\ w_pages' = w_pages \cup {NextQueued}
    /\ UNCHANGED <<wpc, w_total, w_i, w_contexts, w_order, w_all_data, w_buffer, w_sink,
                   w_appends, notPool>>

\* context.new_page() raises: the exception leaves scrape_player_batch and
\* scrape_year; the coroutines created so far are never run
NewPageRaises ==
    /\ wpc = "pages"
    /\ ~AllCreated
    /\ NextQueued \in DropPositions
    /\ wpc' = "aborted"
    /\ UNCHANGED <<w_total, w_i, w_state, w_pages, w_contexts, w_order, w_all_data,
                   w_buffer, w_sink, w_appends, notPool>>

\* the loop over urls is over: asyncio.gather is called
CallGather ==
    /\ wpc = "pages"
    /\ AllCreated
    /\ wpc' = "gather"
    /\ UNCHANGED <<w_total, w_i, w_state, w_pages, w_contexts, w_order, w_all_data,
                   w_buffer, w_sink, w_appends, notPool>>

\* the task of position q begins: scrape_player awaits parse_profile
StartTask ==
    \E q \in 1..w_total :
        /\ wpc = "gather"
        /\ w_state[q] = "created"
        /\ w_state' = [w_state EXCEPT ![q] = "running"]
        /\ UNCHANGED <<wpc, w_total, w_i, w_pages, w_contexts, w_order, w_all_data, w_buffer,
                       w_sink, w_appends, notPool>>

\* scrape_player returns its dict after "finally: await page.close()"
TaskReturns ==
    \E q \in 1..w_total :
        /\ w_state[q] = "running"
        /\ w_state' = [w_state EXCEPT ![q] = "returned"]
        /\ w_pages' = w_pages \ {q}
        /\ w_order' = Append(w_order, q)
        /\ UNCHANGED <<wpc, w_total, w_i, w_contexts, w_all_data, w_buffer, w_sink,
                       w_appends, notPool>>

\* page.close() raises in the finally: the task ends with the exception and
\* its page stays open until the context is closed
TaskRaises ==
    \E q \in 1..w_total :
        /\ w_state[q] = "running"
        /\ q \in DropPositions
        /\ w_state' = [w_state EXCEPT ![q] = "raised"]
        /\ w_order' = Append(w_order, q)
        /\ UNCHANGED <<wpc, w_total, w_i, w_pages, w_contexts, w_all_data, w_buffer, w_sink,
                       w_appends, notPool>>

\* gather returns
GatherReturns ==
    /\ wpc = "gather"
    /\ GatherDone(w_state, BatchOf(w_i, w_total))
    /\ wpc' = "close"
    /\ UNCHANGED <<w_total, w_i, w_state, w_pages, w_contexts, w_order, w_all_data,
                   w_buffer, w_sink, w_appends, notPool>>

\* "await context.close()", the dicts among the results, and the rest of the
\* iteration of scrape_year: extend all_data and batch_buffer, save at 100
CloseAndCollect ==
    /\ wpc = "close"
    /\ LET batch == BatchOf(w_i, w_total)
           results == Results(w_i, w_total, w_order)
           valid_results == SelectSeq(results, LAMBDA q : w_state[q] = "returned")
           buffer == w_buffer \o valid_results
       IN  /\ w_contexts' = w_contexts \ {w_i \div MAX_CONCURRENT}
           /\ w_pages' = w_pages \ batch
           /\ w_all_data' = w_all_data \o valid_results
           /\ IF BufferFull(buffer)
              THEN /\ w_sink' = w_sink \o buffer
                   /\ w_appends' = w_appends + 1
                   /\ w_buffer' = <<>>
              ELSE /\ w_buffer' = buffer
                   /\ UNCHANGED <<w_sink, w_appends>>
    /\ w_i' = w_i + MAX_CONCURRENT
    /\ wpc' = "window"
    /\ UNCHANGED <<w_total, w_state, w_order, notPool>>

\* context.close() raises: the exception leaves scrape_year
ContextCloseRaises ==
    /\ wpc = "close"
    /\ w_i = 0
    /\ wpc' = "aborted"
    /\ UNCHANGED <<w_total, w_i, w_state, w_pages, w_contexts, w_order, w_all_data,
                   w_buffer, w_sink, w_appends, notPool>>

\* the loop is over: "if batch_buffer: append_to_csv(filename, batch_buffer)"
PoolFinishYear ==
    /\ wpc = "window"
    /\ w_i >= w_total
    /\ IF w_buffer # <<>>
       THEN /\ w_sink' = w_sink \o w_buffer
            /\ w_appends' = w_appends + 1
       ELSE UNCHANGED <<w_sink, w_appends>>
    /\ w_buffer' = <<>>
    /\ wpc' = "done"
    /\ UNCHANGED <<w_total, w_i, w_state, w_pages, w_contexts, w_order, w_all_data,
                   notPool>>

NextPool ==
    \/ OpenContext \/ NewPage \/ NewPageRaises \/ CallGather
    \/ StartTask \/ TaskReturns \/ TaskRaises
    \/ GatherReturns \/ CloseAndCollect \/ ContextCloseRaises \/ PoolFinishYear

\* the other components stay as constructed
PoolStart == PoolInit /\ PoolAlone

SpecPool == PoolStart /\ [][NextPool]_vars

\* the positions whose fetch is in flight
InFlight == {q \in 1..w_total : w_state[q] = "running"}

\* the positions that have a task, and those not yet over: the task has not
\* ended, or the page or the context of the window is still open
Started == {q \in 1..w_total : w_state[q] # "queued"}
NotOver == {q \in Started : \/ ~Ended(w_state, q)
                            \/ q \in w_pages
                            \/ WindowOf(q) \in w_contexts}

\* C33: at every moment of scrape_year at most MAX_CONCURRENT detail fetches
\* are in flight, and no entity of a window has started while an entity of an
\* earlier window has not ended or its page or context is still open.
C33_BoundedWindows ==
    /\ Cardinality(InFlight) <= MAX_CONCURRENT
    /\ \A q \in NotOver : \A r \in Started : WindowOf(r) <= WindowOf(q)

\* the four fetches of the second window are in flight together
C33_Witness ==
    /\ w_i = MAX_CONCURRENT
    /\ Cardinality(InFlight) = MAX_CONCURRENT
    /\ w_state[1] = "returned"

\* the records produced so far, in listing order
Produced ==
    SelectSeq([k \in 1..(IF w_i < w_total THEN w_i ELSE w_total) |-> k],
              LAMBDA q : w_state[q] = "returned")

\* C34: for every order in which the tasks of the windows end, the batches
\* appended to the CSV, one after the other, are the records produced, in
\* listing order, each once; at the end none is left out.
C34_FlushOrder ==
    /\ wpc # "idle" =>
         /\ w_sink \o w_buffer = Produced
         /\ w_all_data = Produced
    /\ wpc = "done" => (w_buffer = <<>> /\ w_sink = Produced)

\* a year ended with two appends, the tasks of the last window having ended
\* in reverse order
C34_Witness ==
    /\ wpc = "done"
    /\ w_appends = 2
    /\ Len(w_sink) = FLUSH_THRESHOLD + MAX_CONCURRENT
    /\ Len(w_order) = MAX_CONCURRENT
    /\ \A k \in 1..(MAX_CONCURRENT - 1) : w_order[k] > w_order[k + 1]


\* ---------------------------------------------------------------------------
\* scraper.py: scrape_year run twice on one listing L: a first run with
\* START_FROM_PLAYER = 0 that stops between two windows (the process is
\* ended, or an exception leaves scrape_year), and a second run with
\* START_FROM_PLAYER = k.  Both runs of one day write to the same file.  A
\* record is the position of its entry in L, counted from 1.
\* ---------------------------------------------------------------------------

\* the listings: within one window, one save, two saves
ResumeSizes == {3, FLUSH_THRESHOLD + MAX_CONCURRENT, 2 * FLUSH_THRESHOLD + 5}

NoDrop == [run |-> 0, pos |-> 0]

\* the tasks whose page.close() may raise: one of the first run, one of the
\* second
ResumeDrops == {NoDrop, [run |-> 1, pos |-> 1],
                [run |-> 2, pos |-> FLUSH_THRESHOLD + 2]}

\* the positions 1..n in order
Positions(n) == [k \in 1..n |-> k]

ResumeInit ==
    /\ upc = "start"
    /\ u_run = 1
    /\ u_total \in ResumeSizes
    /\ u_drop \in ResumeDrops
    /\ u_start_from = 0
    /\ u_player_urls = <<>>
    /\ u_i = 0
    /\ u_processed = <<>>
    /\ u_buffer = <<>>
    /\ u_sink = <<>>
    /\ u_first_sink = <<>>

\* "if START_FROM_PLAYER > 0: player_urls = player_urls[START_FROM_PLAYER:]"
ResumeStartYear ==
    /\ upc = "start"
    /\ u_player_urls' = (IF u_start_from > 0
                         THEN DropFirst(Positions(u_total), u_start_from)
                         ELSE Positions(u_total))
    /\ upc' = "windows"
    /\ UNCHANGED <<u_run, u_total, u_drop, u_start_from, u_i, u_processed, u_buffer,
                   u_sink, u_first_sink, notResume>>

\* one iteration of the loop of scrape_year
ResumeWindow ==
    /\ upc = "windows"
    /\ u_i < Len(u_player_urls)
    /\ LET hi         == IF u_i + MAX_CONCURRENT < Len(u_player_urls)
                         THEN u_i + MAX_CONCURRENT ELSE Len(u_player_urls)
           batch      == SubSeq(u_player_urls, u_i + 1, hi)
           batch_data == SelectSeq(batch,
                             LAMBDA q : [run |-> u_run, pos |-> q] # u_drop)
           buffer     == u_buffer \o batch_data
       IN  /\ u_processed' = u_processed \o batch
           /\ IF BufferFull(buffer)
              THEN /\ u_sink' = u_sink \o buffer
                   /\ u_buffer' = <<>>
              ELSE /\ u_buffer' = buffer
                   /\ UNCHANGED u_sink
    /\ u_i' = u_i + MAX_CONCURRENT
    /\ UNCHANGED <<upc, u_run, u_total, u_drop, u_start_from, u_player_urls,
                   u_first_sink, notResume>>

\* the first run stops before its next window: what is in batch_buffer is lost
RunStops ==
    /\ upc = "windows"
    /\ u_run = 1
    /\ u_i < Len(u_player_urls)
    /\ u_first_sink' = u_sink
    /\ u_buffer' = <<>>
    /\ upc' = "stopped"
    /\ UNCHANGED <<u_run, u_total, u_drop, u_start_from, u_player_urls, u_i,
                   u_processed, u_sink, notResume>>

\* the scraper is started again with START_FROM_PLAYER set to the number of
\* records in the file
ResumeRun ==
    /\ upc = "stopped"
    /\ u_run' = 2
    /\ u_start_from' = Len(u_sink)
    /\ u_player_urls' = <<>>
    /\ u_i' = 0
    /\ u_processed' = <<>>
    /\ upc' = "start"
    /\ UNCHANGED <<u_total, u_drop, u_buffer, u_sink, u_first_sink, notResume>>

\* "if batch_buffer: append_to_csv(filename, batch_buffer)"
ResumeFinishYear ==
    /\ upc = "windows"
    /\ u_i >= Len(u_player_urls)
    /\ u_sink' = u_sink \o u_buffer
    /\ u_buffer' = <<>>
    /\ upc' = "done"
    /\ UNCHANGED <<u_run, u_total, u_drop, u_start_from, u_player_urls, u_i,
                   u_processed, u_first_sink, notResume>>

NextResume ==
    ResumeStartYear \/ ResumeWindow \/ RunStops \/ ResumeRun \/ ResumeFinishYear

\* the other components stay as constructed
ResumeStart == ResumeInit /\ ResumeAlone

SpecResume == ResumeStart /\ [][NextResume]_vars

\* the entries a run with offset k has processed after its loop index reached i
ProcessedBy(k, i) ==
    LET last == IF k + i < u_total THEN k + i ELSE u_total
    IN  IF last <= k THEN <<>> ELSE SubSeq(Positions(u_total), k + 1, last)

\* a run with offset k processes exactly the entries after the first k, in order
ProcessesFromOffset ==
    upc \in {"windows", "done"} => u_processed = ProcessedBy(u_start_from, u_i)

\* the first run had appended the records of the first k entries and the
\* second run, started with offset k, is over
Resumed ==
    /\ upc = "done"
    /\ u_run = 2
    /\ u_first_sink = Positions(u_start_from)

\* C35: a run of scrape_year with offset k processes exactly the entries
\* after the first k of L, in order; if the first run had appended the records
\* of the first k entries when it stopped, the run resumed with offset k
\* leaves the file with one record for every entry of L, none twice, none
\* skipped.
C35_ResumeComposition ==
    /\ ProcessesFromOffset
    /\ Resumed => u_sink = Positions(u_total)

\* the same when no task of the resumed run ends with an exception
ResumeComposesWithoutDrop ==
    /\ ProcessesFromOffset
    /\ (Resumed /\ u_drop.run # 2) => u_sink = Positions(u_total)

\* a first run stopped after its save of 100 records and the resumed run
\* completed the file
ResumedAfterSave ==
    /\ Resumed
    /\ u_start_from = FLUSH_THRESHOLD
    /\ u_drop = NoDrop
    /\ u_sink = Positions(u_total)


\* ---------------------------------------------------------------------------
\* scraper.py: click_load_more_until_complete from the extraction of the
\* links to the return: filter, normalize, deduplicate, the cut of TEST_MODE.
\* ---------------------------------------------------------------------------

\* the k-th link of a long page: player number who, in one of several raw forms
LinkOf(who, k) ==
    BuildUrl([scheme |-> IF k % 2 = 0 THEN H_HTTP ELSE H_HTTPS,
              www    |-> k % 2,
              host   |-> S_HOST,
              kind   |-> "player",
              slug   |-> <<"p", "-">> \o str(who),
              suffix |-> IF k % 3 = 0
                         THEN <<"/", "c", "o", "l", "l", "e", "g", "e", "-", "9", "/">>
                         ELSE <<"/">>,
              tail   |-> IF k % 2 = 0 THEN <<"?", "q">> ELSE <<>>])

\* a page with the links of n players, followed by the first two players again
LongListing(n) == [k \in 1..(n + 2) |-> LinkOf(IF k > n THEN k - n ELSE k, k)]

ExtractListings ==
    Listings \cup {LongListing(TEST_MODE_LIMIT), LongListing(TEST_MODE_LIMIT + 1)}

\* "if TEST_MODE and len(player_urls) > 300: player_urls = player_urls[:300]"
TestModeCut(urls, test_mode) ==
    IF test_mode /\ Len(urls) > TEST_MODE_LIMIT
    THEN SubSeq(urls, 1, TEST_MODE_LIMIT)
    ELSE urls

ExtractInit ==
    /\ epc = "links"
    /\ e_test_mode \in BOOLEAN
    /\ e_player_links \in ExtractListings
    /\ e_player_urls = <<>>

\* "player_urls = list(dict.fromkeys(normalize_player_url(u) for u in
\* player_links if ...))", the cut of TEST_MODE, "return player_urls"
ExtractAndCut ==
    /\ epc = "links"
    /\ e_player_urls' = TestModeCut(ExtractPlayerUrls(e_player_links), e_test_mode)
    /\ epc' = "returned"
    /\ UNCHANGED <<e_test_mode, e_player_links, notExtract>>

NextExtract == ExtractAndCut

\* the other components stay as constructed
ExtractStart == ExtractInit /\ ExtractAlone

SpecExtract == ExtractStart /\ [][NextExtract]_vars

\* the list xs has no value twice
Distinct(xs) == \A i, j \in 1..Len(xs) : i < j => xs[i] # xs[j]

\* the place of the first occurrence of u in xs
FirstAt(xs, u) == MinOf({k \in 1..Len(xs) : xs[k] = u})

\* xs holds values of all only, ordered by their first occurrence in all
InFirstOccurrenceOrder(xs, all) ==
    /\ \A i \in 1..Len(xs) : \E k \in 1..Len(all) : all[k] = xs[i]
    /\ \A i \in 1..(Len(xs) - 1) : FirstAt(all, xs[i]) < FirstAt(all, xs[i + 1])

Values(xs) == {xs[k] : k \in 1..Len(xs)}

\* C37 as stated: for any sequence of links read from the page, the list
\* returned holds each normalized locator at most once, holds the normalized
\* form of every 247sports player link read, and is ordered by the first
\* occurrence of each in page order.
C37_DistinctInOrder ==
    epc = "returned" =>
        LET all == NormalizedLinks(e_player_links, 1)
        IN  /\ Distinct(e_player_urls)
            /\ Values(e_player_urls) = Values(all)
            /\ InFirstOccurrenceOrder(e_player_urls, all)

\* C37: the list returned holds each normalized locator at most once, in the
\* order of their first occurrences on the page; outside TEST_MODE it holds
\* the normalized form of every 247sports player link read, and in TEST_MODE
\* the first 300 of them.
C37_DistinctInOrderUpToCut ==
    epc = "returned" =>
        LET all == NormalizedLinks(e_player_links, 1)
            n   == Cardinality(Values(all))
        IN  /\ Distinct(e_player_urls)
            /\ InFirstOccurrenceOrder(e_player_urls, all)
            /\ Len(e_player_urls) =
                   (IF e_test_mode /\ n > TEST_MODE_LIMIT THEN TEST_MODE_LIMIT ELSE n)
            /\ \A k \in 1..Len(all) :
                   (\A i \in 1..Len(e_player_urls) : e_player_urls[i] # all[k]) =>
                       /\ e_test_mode
                       /\ \A i \in 1..Len(e_player_urls) :
                              FirstAt(all, e_player_urls[i]) < k

\* C37 witness: outside TEST_MODE a page of 303 links of 301 players in
\* several raw forms gave the 301 locators
C37_Witness ==
    /\ epc = "returned"
    /\ ~e_test_mode
    /\ Len(e_player_links) = TEST_MODE_LIMIT + 3
    /\ Len(e_player_urls) = TEST_MODE_LIMIT + 1
    /\ e_player_urls[1] = CanonicalUrl(<<"p", "-", "1">>)


\* ---------------------------------------------------------------------------
\* validate_output.py: validate_csv on a file of the output directory, up to
\* its return.  The completeness, duplicate and distribution reports after the
\* header check print only; they read the columns of expected_headers, which
\* are present once the header check has passed.
\* ---------------------------------------------------------------------------

MaxRows == 3

\* "expected_headers = [ ... ]"
expected_headers ==
    {"247 ID", "Player Name", "Position", "Height", "Weight", "High School",
     "City, ST", "Class", "247 Stars", "247 Rating", "247 National Rank",
     "247 Position", "247 Position Rank", "Composite Stars", "Composite Rating",
     "Composite National Rank", "Composite Position", "Composite Position Rank",
     "Signed Date", "Signed Team", "Draft Date", "Recruiting Year",
     "Profile URL", "Scrape Date", "Data Source"}

\* the files validate_csv may be given: the one append_to_csv writes
\* ("csv.DictWriter(f, fieldnames=CSV_HEADERS)", "writer.writeheader()"), and
\* files of another origin, with the columns validate_csv expects or with
\* one column of the scraper left out
CsvFiles ==
    {[writer |-> "scraper", headers |-> CSV_HEADERS]}
        \cup {[writer |-> "other", headers |-> expected_headers]}
        \cup {[writer |-> "other", headers |-> CSV_HEADERS \ {h}] : h \in CSV_HEADERS}

\* "missing_headers = set(expected_headers) - set(actual_headers)"
missing_headers(actual_headers) == expected_headers \ actual_headers

\* "extra_headers = set(actual_headers) - set(expected_headers)"
extra_headers(actual_headers) == actual_headers \ expected_headers

ValidateInit ==
    /\ opc = "start"
    /\ \E file \in CsvFiles :
           /\ o_writer = file.writer
           /\ o_headers = file.headers
    /\ o_rows \in 0..MaxRows
    /\ o_missing = {}
    /\ o_extra = {}
    /\ o_warned = FALSE
    /\ o_result = "none"

\* "if not rows: print(... CSV is empty!); return False"
CsvIsEmpty ==
    /\ opc = "start"
    /\ o_rows = 0
    /\ o_result' = "False"
    /\ opc' = "done"
    /\ UNCHANGED <<o_writer, o_headers, o_rows, o_missing, o_extra, o_warned,
                   notValidate>>

\* "if missing_headers: print(... Missing Headers ...); return False"
HeadersMissing ==
    /\ opc = "start"
    /\ o_rows > 0
    /\ missing_headers(o_headers) # {}
    /\ o_missing' = missing_headers(o_headers)
    /\ o_extra' = extra_headers(o_headers)
    /\ o_result' = "False"
    /\ opc' = "done"
    /\ UNCHANGED <<o_writer, o_headers, o_rows, o_warned, notValidate>>

\* no header is missing: "if extra_headers: print(... Extra Headers ...)",
\* "print(... All {len(expected_headers)} expected headers present)"
HeadersPresent ==
    /\ opc = "start"
    /\ o_rows > 0
    /\ missing_headers(o_headers) = {}
    /\ o_missing' = {}
    /\ o_extra' = extra_headers(o_headers)
    /\ o_warned' = (extra_headers(o_headers) # {})
    /\ opc' = "report"
    /\ UNCHANGED <<o_writer, o_headers, o_rows, o_result, notValidate>>

\* the reports, "print(... VALIDATION COMPLETE)", "return True"
ValidationComplete ==
    /\ opc = "report"
    /\ o_result' = "True"
    /\ opc' = "done"
    /\ UNCHANGED <<o_writer, o_headers, o_rows, o_missing, o_extra, o_warned,
                   notValidate>>

NextValidate ==
    \/ CsvIsEmpty
    \/ HeadersMissing
    \/ HeadersPresent
    \/ ValidationComplete

\* the other components stay as constructed
ValidateStart == ValidateInit /\ ValidateAlone

SpecValidate == ValidateStart /\ [][NextValidate]_vars

\* validate_csv has returned for a file of one row or more that
\* append_to_csv wrote
ScraperFileValidated == o_writer = "scraper" /\ o_rows > 0 /\ opc = "done"

\* C38: the headers validate_csv expects are the columns the scraper writes,
\* so for a file of one row or more written by the scraper validate_csv
\* finds no missing header, finds no extra header, and returns True.
C38_SchemaAgreement ==
    /\ expected_headers = CSV_HEADERS
    /\ ScraperFileValidated =>
           /\ o_missing = {}
           /\ o_extra = {}
           /\ ~o_warned
           /\ o_result = "True"

\* what the code does for such a file: no missing header and True returned,
\* with the column "Draft Team" reported as an extra header
ScraperFileAcceptedWithExtra ==
    /\ CSV_HEADERS \ expected_headers = {"Draft Team"}
    /\ expected_headers \subseteq CSV_HEADERS
    /\ ScraperFileValidated =>
           /\ o_missing = {}
           /\ o_extra = {"Draft Team"}
           /\ o_warned
           /\ o_result = "True"

\* a file with the columns validate_csv expects passes without a warning
ExpectedFileClean ==
    (o_headers = expected_headers /\ o_rows > 0 /\ opc = "done") =>
        o_missing = {} /\ o_extra = {} /\ ~o_warned /\ o_result = "True"


\* ---------------------------------------------------------------------------
\* validate_accuracy.py: validate_accuracy, from the reading of the file to
\* the value returned or the exception that leaves the function.
\* ---------------------------------------------------------------------------

MaxSample == 4

\* "async def parse_profile(page, url: str, year: int, player_num: int,
\* total: int) -> dict": five parameters, none with a default
PARSE_PROFILE_PARAMS == <<"page", "url", "year", "player_num", "total">>

\* "fresh_data = await scraper.parse_profile(page, url, year)"
RESCRAPE_ARGS == <<"page", "url", "year">>

\* a call with positional arguments binds when each parameter without a
\* default gets an argument and no argument is left over; otherwise the call
\* raises TypeError before the body of the function runs
Binds(params, args) == Len(args) = Len(params)

\* "accuracy_rate = (perfect_matches / sample_size) * 100",
\* "return accuracy_rate >= 90"
AccuracyResult(perfect_matches, sample_size) ==
    IF sample_size = 0 THEN "ZeroDivisionError"
    ELSE IF perfect_matches * 100 >= 90 * sample_size THEN "True"
    ELSE "False"

AccuracyInit ==
    /\ apc = "start"
    /\ a_rows \in 0..MaxSample
    /\ a_sample_size \in 0..MaxSample
    /\ a_fresh \in [1..MaxSample -> BOOLEAN]
    /\ a_i = 0
    /\ a_perfect_matches = 0
    /\ a_mismatches = 0
    /\ a_result = "none"

\* "if len(rows) < sample_size: sample_size = len(rows)",
\* "sample = random.sample(rows, sample_size)"
ReadAndSample ==
    /\ apc = "start"
    /\ a_sample_size' = IF a_rows < a_sample_size THEN a_rows ELSE a_sample_size
    /\ apc' = "loop"
    /\ UNCHANGED <<a_rows, a_fresh, a_i, a_perfect_matches, a_mismatches, a_result,
                   notAccuracy>>

\* one turn of "for i, original_data in enumerate(sample)": the call of
\* scraper.parse_profile, then the comparison of fields_to_check
VerifyPlayer ==
    /\ apc = "loop"
    /\ a_i < a_sample_size
    /\ IF Binds(PARSE_PROFILE_PARAMS, RESCRAPE_ARGS)
       THEN /\ a_i' = a_i + 1
            /\ a_perfect_matches' =
                   IF a_fresh[a_i + 1] THEN a_perfect_matches + 1
                   ELSE a_perfect_matches
            /\ a_mismatches' =
                   IF a_fresh[a_i + 1] THEN a_mismatches ELSE a_mismatches + 1
            /\ UNCHANGED <<apc, a_result>>
       ELSE /\ a_result' = "TypeError"
            /\ apc' = "done"
            /\ UNCHANGED <<a_i, a_perfect_matches, a_mismatches>>
    /\ UNCHANGED <<a_rows, a_sample_size, a_fresh, notAccuracy>>

\* the loop is over: the summary, the interpretation, the return
Summarize ==
    /\ apc = "loop"
    /\ a_i = a_sample_size
    /\ a_result' = AccuracyResult(a_perfect_matches, a_sample_size)
    /\ apc' = "done"
    /\ UNCHANGED <<a_rows, a_sample_size, a_fresh, a_i, a_perfect_matches,
                   a_mismatches, notAccuracy>>

NextAccuracy ==
    \/ ReadAndSample
    \/ VerifyPlayer
    \/ Summarize

\* the other components stay as constructed
AccuracyStart == AccuracyInit /\ AccuracyAlone

SpecAccuracy == AccuracyStart /\ [][NextAccuracy]_vars

\* the sampled rows whose live profile agrees on all checked fields
Matching == Cardinality({k \in 1..a_sample_size : a_fresh[k]})

\* C39: the call of scraper.parse_profile supplies every parameter the
\* function requires, so no error ends the validation; and for every sample,
\* the empty one included, validate_accuracy returns a boolean, True exactly
\* when at least 90% of the sampled players match on all checked fields.
C39_WellFormedClient ==
    /\ Binds(PARSE_PROFILE_PARAMS, RESCRAPE_ARGS)
    /\ a_result \notin {"TypeError", "ZeroDivisionError"}
    /\ apc = "done" =>
           /\ a_result \in {"True", "False"}
           /\ a_result = "True" <=> Matching * 100 >= 90 * a_sample_size

\* what the code does: a sample of one row or more ends at its first call of
\* parse_profile with TypeError, an empty sample ends at the division with
\* ZeroDivisionError, and no run returns a boolean
ValidationAlwaysRaises ==
    apc = "done" =>
        /\ a_sample_size > 0 => (a_result = "TypeError" /\ a_i = 0)
        /\ a_sample_size = 0 => a_result = "ZeroDivisionError"

\* a sample of several rows ended at the call for its first row
RescrapeRaised == apc = "done" /\ a_sample_size > 1 /\ a_result = "TypeError"

\* the file had no row and the division by sample_size raised
EmptySampleRaised == apc = "done" /\ a_rows = 0 /\ a_result = "ZeroDivisionError"

====
